---- MODULE Spec2Model ----
(***************************************************************************)
(* tee-morphosis: region extraction, Tee construction, HSL recolouring    *)
(* and layer composition (src/src/tee.rs and src/src/tee/*.rs).            *)
(*                                                                         *)
(* u32 values are kept at their full 32-bit width as two 16-bit limbs      *)
(* [hi, lo] so that the additions of the bounds check can wrap or trap.    *)
(***************************************************************************)
EXTENDS Integers, Naturals, Sequences, FiniteSets, TLC

VARIABLES
    overflow_checks,  \* build profile: TRUE traps on integer overflow (debug), FALSE wraps (release)
    img,              \* the decoded source image the calls of this run work on
    res,              \* the last call: its name, its arguments and what it returned
    tee,              \* the Tee under study (Tee.ok = FALSE before a successful parse)
    recolors,         \* number of recolour calls made on the Tee
    iter,             \* the pixel iterator the workers of a parallel pass share: pixels handed out so far
    workers,          \* each worker of a parallel pass: where it is, the pixel it holds, the value it read
    builder,          \* the TeeBuilder being configured (NoBuilder when there is none, or once build has consumed it)
    with_calls        \* the with_ calls made on the builder so far, oldest first

vars == <<overflow_checks, img, res, tee, recolors, iter, workers, builder,
          with_calls>>

(***************************************************************************)
(* Bounds of the model                                                     *)
(***************************************************************************)
MaxDim == 3          \* source images are at most MaxDim x MaxDim pixels
MaxRecolors == 1     \* recolour calls per Tee
MaxWorkers == 2      \* worker threads of the pool a parallel pass runs on
MaxPixels == 3       \* pixels of the buffers the parallel pass is run on
MaxCalls == 3        \* with_ calls made on a builder before build

(***************************************************************************)
(* 32-bit unsigned integers                                                *)
(***************************************************************************)
Limb == 65536

U32(n) == [hi |-> 0, lo |-> n]

U32_MAX == [hi |-> Limb - 1, lo |-> Limb - 1]

\* U32_MAX - n for small n
U32Top(n) == [hi |-> Limb - 1, lo |-> Limb - 1 - n]

\* the mathematical sum a + b: carry is 1 when it does not fit 32 bits,
\* [hi, lo] is the sum modulo 2^32
Sum(a, b) ==
    LET l == a.lo + b.lo
        h == a.hi + b.hi + (l \div Limb)
    IN  [carry |-> h \div Limb, hi |-> h % Limb, lo |-> l % Limb]

Wrapped(s) == [hi |-> s.hi, lo |-> s.lo]

Gt(a, b) == a.hi > b.hi \/ (a.hi = b.hi /\ a.lo > b.lo)

\* a + b <= c over the mathematical integers
SumLeq(a, b, c) == LET s == Sum(a, b) IN s.carry = 0 /\ ~Gt(Wrapped(s), c)

(***************************************************************************)
(* Images: RgbaImage / DynamicImage as a grid of <<r, g, b, a>> pixels     *)
(***************************************************************************)
Grid(w, h) == (0 .. w - 1) \X (0 .. h - 1)

Image(w, h, f) == [width |-> w, height |-> h, px |-> f]

NoImage == Image(0, 0, [p \in Grid(0, 0) |-> <<0, 0, 0, 0>>])

Part(x, y, w, h) == [x |-> x, y |-> y, w |-> w, h |-> h]

NoPart == Part(U32(0), U32(0), U32(0), U32(0))

(***************************************************************************)
(* Results: kind is "Ok", one of the TeeError variants, or "Panic"         *)
(***************************************************************************)
NoErr == [part |-> NoPart, width |-> 0, height |-> 0,
          expected |-> <<0, 0>>, found |-> <<0, 0>>]

OutOfBounds(part, width, height) ==
    [part |-> part, width |-> width, height |-> height,
     expected |-> <<0, 0>>, found |-> <<0, 0>>]

InvalidDimensions(expected, found) ==
    [part |-> NoPart, width |-> 0, height |-> 0,
     expected |-> expected, found |-> found]

\* GenericImageView::view(x, y, w, h).to_image(): the crop of a rectangle
\* that lies inside the image
view(image, part) ==
    Image(part.w.lo, part.h.lo,
          [p \in Grid(part.w.lo, part.h.lo) |->
              image.px[<<part.x.lo + p[1], part.y.lo + p[2]>>]])

\* extract_part with the comparison of the bounds check off by one
extract_part_off_by_one(image, part, checks) ==
    LET xs == Sum(part.x, part.w)
        ys == Sum(part.y, part.h)
        oob == [kind |-> "OutOfBounds",
                err |-> OutOfBounds(part, image.width, image.height),
                img |-> NoImage, calls |-> <<part>>]
        panic == [kind |-> "Panic", err |-> NoErr, img |-> NoImage,
                  calls |-> <<part>>]
    IN  IF checks /\ xs.carry = 1 THEN panic
        ELSE IF ~Gt(U32(image.width), Wrapped(xs)) THEN oob
        ELSE IF checks /\ ys.carry = 1 THEN panic
        ELSE IF ~Gt(U32(image.height), Wrapped(ys)) THEN oob
        ELSE [kind |-> "Ok", err |-> NoErr, img |-> view(image, part),
              calls |-> <<part>>]

\* extract_part reporting the image size with width and height exchanged
extract_part_swapped_size(image, part, checks) ==
    LET xs == Sum(part.x, part.w)
        ys == Sum(part.y, part.h)
        oob == [kind |-> "OutOfBounds",
                err |-> OutOfBounds(part, image.height, image.width),
                img |-> NoImage, calls |-> <<part>>]
        panic == [kind |-> "Panic", err |-> NoErr, img |-> NoImage,
                  calls |-> <<part>>]
    IN  IF checks /\ xs.carry = 1 THEN panic
        ELSE IF Gt(Wrapped(xs), U32(image.width)) THEN oob
        ELSE IF checks /\ ys.carry = 1 THEN panic
        ELSE IF Gt(Wrapped(ys), U32(image.height)) THEN oob
        ELSE IF ~(SumLeq(part.x, part.w, U32(image.width))
                  /\ SumLeq(part.y, part.h, U32(image.height))) THEN panic
        ELSE [kind |-> "Ok", err |-> NoErr, img |-> view(image, part),
              calls |-> <<part>>]

\* extract_part: the bounds check `x + w > width || y + h > height` in u32
\* arithmetic (an overflowing addition traps when overflow checks are on and
\* wraps otherwise; the right operand is evaluated only when the left one is
\* false), then the crop, whose own bounds assertion panics.
extract_part(image, part, checks) ==
    LET xs == Sum(part.x, part.w)
        ys == Sum(part.y, part.h)
        oob == [kind |-> "OutOfBounds",
                err |-> OutOfBounds(part, image.width, image.height),
                img |-> NoImage, calls |-> <<part>>]
        panic == [kind |-> "Panic", err |-> NoErr, img |-> NoImage,
                  calls |-> <<part>>]
    IN  IF checks /\ xs.carry = 1 THEN panic
        ELSE IF Gt(Wrapped(xs), U32(image.width)) THEN oob
        ELSE IF checks /\ ys.carry = 1 THEN panic
        ELSE IF Gt(Wrapped(ys), U32(image.height)) THEN oob
        ELSE IF ~(SumLeq(part.x, part.w, U32(image.width))
                  /\ SumLeq(part.y, part.h, U32(image.height))) THEN panic
        ELSE [kind |-> "Ok", err |-> NoErr, img |-> view(image, part),
              calls |-> <<part>>]

(***************************************************************************)
(* Parts with shadows and eyes                                             *)
(***************************************************************************)
WithShadow(value, shadow) == [value |-> value, shadow |-> shadow]

NoWithShadow == WithShadow(NoImage, NoImage)

\* extract_with_shadow: the value first, then the shadow; `?` returns the
\* first failure.  calls lists the rectangles extract_part was called with.
extract_with_shadow(image, part, shadow_part, checks) ==
    LET value == extract_part(image, part, checks)
        shadow == extract_part(image, shadow_part, checks)
    IN  IF value.kind # "Ok"
        THEN [kind |-> value.kind, err |-> value.err, value |-> NoWithShadow,
              calls |-> value.calls]
        ELSE IF shadow.kind # "Ok"
        THEN [kind |-> shadow.kind, err |-> shadow.err, value |-> NoWithShadow,
              calls |-> value.calls \o shadow.calls]
        ELSE [kind |-> "Ok", err |-> NoErr,
              value |-> WithShadow(value.img, shadow.img),
              calls |-> value.calls \o shadow.calls]

\* enum EyeType, in declaration order
EyeType == {"Normal", "Angry", "Pain", "Happy", "Empty", "Surprise"}

\* EyeType::index
index(type) ==
    CASE type = "Normal" -> 0
      [] type = "Angry" -> 1
      [] type = "Pain" -> 2
      [] type = "Happy" -> 3
      [] type = "Empty" -> 4
      [] type = "Surprise" -> 5

\* the variants of extract_all_eyes with Pain and Happy exchanged
EyeTypeData_swapped(k, image) ==
    [tag |-> CASE k = 0 -> "Normal"
               [] k = 1 -> "Angry"
               [] k = 2 -> "Happy"
               [] k = 3 -> "Pain"
               [] k = 4 -> "Empty"
               [] k = 5 -> "Surprise",
     img |-> image]

\* the EyeTypeData variant that extract_all_eyes builds from eye_parts[k]
EyeTypeData(k, image) ==
    [tag |-> CASE k = 0 -> "Normal"
               [] k = 1 -> "Angry"
               [] k = 2 -> "Pain"
               [] k = 3 -> "Happy"
               [] k = 4 -> "Empty"
               [] k = 5 -> "Surprise",
     img |-> image]

NoEyes == [k \in 0 .. 5 |-> [tag |-> "None", img |-> NoImage]]

\* the array literal of extract_all_eyes reading eye_parts from the end
RECURSIVE eyes_from_reversed(_, _, _, _, _, _)
eyes_from_reversed(image, eye_parts, checks, k, eyes, calls) ==
    IF k = 6
    THEN [kind |-> "Ok", err |-> NoErr, value |-> eyes, calls |-> calls]
    ELSE LET e == extract_part(image, eye_parts[5 - k], checks)
         IN  IF e.kind # "Ok"
             THEN [kind |-> e.kind, err |-> e.err, value |-> NoEyes,
                   calls |-> calls \o e.calls]
             ELSE eyes_from_reversed(image, eye_parts, checks, k + 1,
                            [eyes EXCEPT ![k] = EyeTypeData(k, e.img)],
                            calls \o e.calls)

\* the array literal of extract_all_eyes from element k on: elements are
\* evaluated left to right and the first failing `?` returns
RECURSIVE eyes_from(_, _, _, _, _, _)
eyes_from(image, eye_parts, checks, k, eyes, calls) ==
    IF k = 6
    THEN [kind |-> "Ok", err |-> NoErr, value |-> eyes, calls |-> calls]
    ELSE LET e == extract_part(image, eye_parts[k], checks)
         IN  IF e.kind # "Ok"
             THEN [kind |-> e.kind, err |-> e.err, value |-> NoEyes,
                   calls |-> calls \o e.calls]
             ELSE eyes_from(image, eye_parts, checks, k + 1,
                            [eyes EXCEPT ![k] = EyeTypeData(k, e.img)],
                            calls \o e.calls)

extract_all_eyes(image, eye_parts, checks) ==
    eyes_from(image, eye_parts, checks, 0, NoEyes, <<>>)

(***************************************************************************)
(* Tee construction                                                        *)
(***************************************************************************)
\* struct UV: the six part rectangles, the six eye rectangles (indices
\* 0 .. 5) and the size of the image the layout is for
UV(body, body_shadow, feet, feet_shadow, hand, hand_shadow, eyes, container) ==
    [body |-> body, body_shadow |-> body_shadow, feet |-> feet,
     feet_shadow |-> feet_shadow, hand |-> hand, hand_shadow |-> hand_shadow,
     eyes |-> eyes, container |-> container]

\* struct Tee that retains the layout with the body and its shadow exchanged
Tee_shadow_first(body, feet, eye, hand, used_uv) ==
    [ok |-> TRUE, body |-> body, feet |-> feet, eye |-> eye, hand |-> hand,
     used_uv |-> [used_uv EXCEPT !.body = used_uv.body_shadow,
                                 !.body_shadow = used_uv.body]]

\* struct Tee
Tee(body, feet, eye, hand, used_uv) ==
    [ok |-> TRUE, body |-> body, feet |-> feet, eye |-> eye, hand |-> hand,
     used_uv |-> used_uv]

NoTee == [ok |-> FALSE]

\* decode_image: the codec either rejects the bytes or yields the image
decode_image(data, format) ==
    IF data.decodable
    THEN [kind |-> "Ok", img |-> data.image]
    ELSE [kind |-> "Image", img |-> NoImage]

\* validate_image_dimensions with the two sides of the check exchanged in
\* the error
validate_image_dimensions_swapped(actual, expected) ==
    IF actual # expected
    THEN [kind |-> "InvalidDimensions",
          err |-> InvalidDimensions(actual, expected)]
    ELSE [kind |-> "Ok", err |-> NoErr]

\* validate_image_dimensions
validate_image_dimensions(actual, expected) ==
    IF actual # expected
    THEN [kind |-> "InvalidDimensions",
          err |-> InvalidDimensions(expected, actual)]
    ELSE [kind |-> "Ok", err |-> NoErr]

\* ImageBuffer::dimensions as a pair of u32
dimensions(image) == <<U32(image.width), U32(image.height)>>

Failed(kind, err, stages, calls) ==
    [kind |-> kind, err |-> err, tee |-> NoTee, stages |-> stages,
     calls |-> calls]

\* Tee::new_with_uv with the dimension check after the extraction
new_with_uv_validate_late(data, uv, format, checks) ==
    LET dec == decode_image(data, format)
        image == dec.img
        valid == validate_image_dimensions(dimensions(image), uv.container)
        body == extract_with_shadow(image, uv.body, uv.body_shadow, checks)
        feet == extract_with_shadow(image, uv.feet, uv.feet_shadow, checks)
        hand == extract_with_shadow(image, uv.hand, uv.hand_shadow, checks)
        eye == extract_all_eyes(image, uv.eyes, checks)
    IN  IF dec.kind # "Ok"
        THEN Failed(dec.kind, NoErr, <<"decode">>, <<>>)
        ELSE IF body.kind # "Ok"
        THEN Failed(body.kind, body.err,
                    <<"decode", "extract">>, body.calls)
        ELSE IF feet.kind # "Ok"
        THEN Failed(feet.kind, feet.err,
                    <<"decode", "extract">>,
                    body.calls \o feet.calls)
        ELSE IF hand.kind # "Ok"
        THEN Failed(hand.kind, hand.err,
                    <<"decode", "extract">>,
                    body.calls \o feet.calls \o hand.calls)
        ELSE IF eye.kind # "Ok"
        THEN Failed(eye.kind, eye.err,
                    <<"decode", "extract">>,
                    body.calls \o feet.calls \o hand.calls \o eye.calls)
        ELSE IF valid.kind # "Ok"
        THEN Failed(valid.kind, valid.err,
                    <<"decode", "extract", "validate">>,
                    body.calls \o feet.calls \o hand.calls \o eye.calls)
        ELSE [kind |-> "Ok", err |-> NoErr,
              tee |-> Tee(body.value, feet.value, eye.value, hand.value, uv),
              stages |-> <<"decode", "extract", "validate">>,
              calls |-> body.calls \o feet.calls \o hand.calls
                        \o eye.calls]

\* Tee::new_with_uv with the feet extracted before the body
new_with_uv_feet_first(data, uv, format, checks) ==
    LET dec == decode_image(data, format)
        image == dec.img
        valid == validate_image_dimensions(dimensions(image), uv.container)
        body == extract_with_shadow(image, uv.body, uv.body_shadow, checks)
        feet == extract_with_shadow(image, uv.feet, uv.feet_shadow, checks)
        hand == extract_with_shadow(image, uv.hand, uv.hand_shadow, checks)
        eye == extract_all_eyes(image, uv.eyes, checks)
    IN  IF dec.kind # "Ok"
        THEN Failed(dec.kind, NoErr, <<"decode">>, <<>>)
        ELSE IF valid.kind # "Ok"
        THEN Failed(valid.kind, valid.err, <<"decode", "validate">>, <<>>)
        ELSE IF feet.kind # "Ok"
        THEN Failed(feet.kind, feet.err,
                    <<"decode", "validate", "extract">>, feet.calls)
        ELSE IF body.kind # "Ok"
        THEN Failed(body.kind, body.err,
                    <<"decode", "validate", "extract">>,
                    feet.calls \o body.calls)
        ELSE IF hand.kind # "Ok"
        THEN Failed(hand.kind, hand.err,
                    <<"decode", "validate", "extract">>,
                    feet.calls \o body.calls \o hand.calls)
        ELSE IF eye.kind # "Ok"
        THEN Failed(eye.kind, eye.err,
                    <<"decode", "validate", "extract">>,
                    feet.calls \o body.calls \o hand.calls \o eye.calls)
        ELSE [kind |-> "Ok", err |-> NoErr,
              tee |-> Tee(body.value, feet.value, eye.value, hand.value, uv),
              stages |-> <<"decode", "validate", "extract">>,
              calls |-> feet.calls \o body.calls \o hand.calls
                        \o eye.calls]

\* Tee::new_with_uv: decode, validate the dimensions, extract body, feet,
\* hand (each with its shadow) and the eyes; every `?` returns the first
\* failure.  stages lists the stages entered, calls the rectangles
\* extract_part was called with.
new_with_uv(data, uv, format, checks) ==
    LET dec == decode_image(data, format)
        image == dec.img
        valid == validate_image_dimensions(dimensions(image), uv.container)
        body == extract_with_shadow(image, uv.body, uv.body_shadow, checks)
        feet == extract_with_shadow(image, uv.feet, uv.feet_shadow, checks)
        hand == extract_with_shadow(image, uv.hand, uv.hand_shadow, checks)
        eye == extract_all_eyes(image, uv.eyes, checks)
    IN  IF dec.kind # "Ok"
        THEN Failed(dec.kind, NoErr, <<"decode">>, <<>>)
        ELSE IF valid.kind # "Ok"
        THEN Failed(valid.kind, valid.err, <<"decode", "validate">>, <<>>)
        ELSE IF body.kind # "Ok"
        THEN Failed(body.kind, body.err,
                    <<"decode", "validate", "extract">>, body.calls)
        ELSE IF feet.kind # "Ok"
        THEN Failed(feet.kind, feet.err,
                    <<"decode", "validate", "extract">>,
                    body.calls \o feet.calls)
        ELSE IF hand.kind # "Ok"
        THEN Failed(hand.kind, hand.err,
                    <<"decode", "validate", "extract">>,
                    body.calls \o feet.calls \o hand.calls)
        ELSE IF eye.kind # "Ok"
        THEN Failed(eye.kind, eye.err,
                    <<"decode", "validate", "extract">>,
                    body.calls \o feet.calls \o hand.calls \o eye.calls)
        ELSE [kind |-> "Ok", err |-> NoErr,
              tee |-> Tee(body.value, feet.value, eye.value, hand.value, uv),
              stages |-> <<"decode", "validate", "extract">>,
              calls |-> body.calls \o feet.calls \o hand.calls
                        \o eye.calls]

\* uv.rs: the sizes of the regions
BODY_SIZE == <<96, 96>>

FEET_SIZE == <<64, 32>>

EYE_SIZE == <<32, 32>>

HAND_SIZE == <<32, 32>>

\* TEE_UV_LAYOUT with the eyes starting where the body ends
TEE_UV_LAYOUT_eyes_after_body ==
    LET BODY_END_X == BODY_SIZE[1]
        HANDS_AND_FEET_START_X == BODY_SIZE[1] * 2
        HAND_SHADOW_START_X == HANDS_AND_FEET_START_X + HAND_SIZE[1]
        FEET_START_Y == HAND_SIZE[2]
        FEET_SHADOW_START_Y == FEET_START_Y + FEET_SIZE[2]
        EYES_START_X == BODY_SIZE[1]
        EYES_START_Y == BODY_SIZE[2]
    IN  UV(Part(U32(0), U32(0), U32(BODY_SIZE[1]), U32(BODY_SIZE[2])),
           Part(U32(BODY_END_X), U32(0), U32(BODY_SIZE[1]),
                U32(BODY_SIZE[2])),
           Part(U32(HANDS_AND_FEET_START_X), U32(FEET_START_Y),
                U32(FEET_SIZE[1]), U32(FEET_SIZE[2])),
           Part(U32(HANDS_AND_FEET_START_X), U32(FEET_SHADOW_START_Y),
                U32(FEET_SIZE[1]), U32(FEET_SIZE[2])),
           Part(U32(HANDS_AND_FEET_START_X), U32(0), U32(HAND_SIZE[1]),
                U32(HAND_SIZE[2])),
           Part(U32(HAND_SHADOW_START_X), U32(0), U32(HAND_SIZE[1]),
                U32(HAND_SIZE[2])),
           [k \in 0 .. 5 |->
               Part(U32(EYES_START_X + EYE_SIZE[1] * k), U32(EYES_START_Y),
                    U32(EYE_SIZE[1]), U32(EYE_SIZE[2]))],
           <<U32(256), U32(128)>>)

\* TEE_UV_LAYOUT
TEE_UV_LAYOUT ==
    LET BODY_END_X == BODY_SIZE[1]
        HANDS_AND_FEET_START_X == BODY_SIZE[1] * 2
        HAND_SHADOW_START_X == HANDS_AND_FEET_START_X + HAND_SIZE[1]
        FEET_START_Y == HAND_SIZE[2]
        FEET_SHADOW_START_Y == FEET_START_Y + FEET_SIZE[2]
        EYES_START_X == 64
        EYES_START_Y == BODY_SIZE[2]
    IN  UV(Part(U32(0), U32(0), U32(BODY_SIZE[1]), U32(BODY_SIZE[2])),
           Part(U32(BODY_END_X), U32(0), U32(BODY_SIZE[1]),
                U32(BODY_SIZE[2])),
           Part(U32(HANDS_AND_FEET_START_X), U32(FEET_START_Y),
                U32(FEET_SIZE[1]), U32(FEET_SIZE[2])),
           Part(U32(HANDS_AND_FEET_START_X), U32(FEET_SHADOW_START_Y),
                U32(FEET_SIZE[1]), U32(FEET_SIZE[2])),
           Part(U32(HANDS_AND_FEET_START_X), U32(0), U32(HAND_SIZE[1]),
                U32(HAND_SIZE[2])),
           Part(U32(HAND_SHADOW_START_X), U32(0), U32(HAND_SIZE[1]),
                U32(HAND_SIZE[2])),
           [k \in 0 .. 5 |->
               Part(U32(EYES_START_X + EYE_SIZE[1] * k), U32(EYES_START_Y),
                    U32(EYE_SIZE[1]), U32(EYE_SIZE[2]))],
           <<U32(256), U32(128)>>)

\* Tee::new
new(data, format, checks) == new_with_uv(data, TEE_UV_LAYOUT, format, checks)

(***************************************************************************)
(* Parsing from a URL (feature net)                                        *)
(***************************************************************************)
\* Option
None == [some |-> FALSE]

Some(v) == [some |-> TRUE, value |-> v]

\* HeaderValue::to_str().ok(): a header value with bytes that are not
\* visible ASCII is no string
to_str(value) == IF value = "\\xff" THEN None ELSE Some(value)

\* ImageFormat::from_mime_type
from_mime_type(mime) ==
    IF mime = "image/png" THEN Some("Png")
    ELSE IF mime = "image/jpeg" THEN Some("Jpeg")
    ELSE None

\* TeeError::ReqWithOutContentType(url)
ReqWithOutContentType(url) == [url |-> url]

\* the outcome of a failed fetch
NotFetched(kind, err, stages) ==
    [kind |-> kind, err |-> err, stages |-> stages,
     bytes |-> [decodable |-> FALSE, image |-> NoImage], format |-> "none"]

\* fetch_image_from_url that reads the body before it looks at the header
fetch_image_from_url_body_first(url, response) ==
    IF ~response.sent
    THEN NotFetched("Reqwest", NoErr, <<"send">>)
    ELSE IF ~response.body_read
    THEN NotFetched("Reqwest", NoErr, <<"send", "body">>)
    ELSE LET header == response.content_type
             str == IF header.some THEN to_str(header.value) ELSE None
             format == IF str.some THEN from_mime_type(str.value) ELSE None
         IN  IF ~format.some
             THEN NotFetched("ReqWithOutContentType",
                             ReqWithOutContentType(url),
                             <<"send", "body", "content_type">>)
             ELSE [kind |-> "Ok", err |-> NoErr,
                   stages |-> <<"send", "body", "content_type">>,
                   bytes |-> response.bytes, format |-> format.value]

\* fetch_image_from_url: response is what the server at url does
fetch_image_from_url(url, response) ==
    IF ~response.sent
    THEN NotFetched("Reqwest", NoErr, <<"send">>)
    ELSE LET header == response.content_type
             str == IF header.some THEN to_str(header.value) ELSE None
             format == IF str.some THEN from_mime_type(str.value) ELSE None
         IN  IF ~format.some
             THEN NotFetched("ReqWithOutContentType",
                             ReqWithOutContentType(url),
                             <<"send", "content_type">>)
             ELSE IF ~response.body_read
             THEN NotFetched("Reqwest", NoErr,
                             <<"send", "content_type", "body">>)
             ELSE [kind |-> "Ok", err |-> NoErr,
                   stages |-> <<"send", "content_type", "body">>,
                   bytes |-> response.bytes, format |-> format.value]

\* what a constructor from a URL returns: the error of the fetch, or what
\* the parse in spawn_blocking returned, where a panic of the blocking task
\* comes back as TeeError::Join
FromUrl(fetched, ret) ==
    IF fetched.kind # "Ok"
    THEN Failed(fetched.kind, fetched.err, fetched.stages, <<>>)
    ELSE [ret EXCEPT !.kind = IF @ = "Panic" THEN "Join" ELSE @,
                     !.stages = fetched.stages \o @]

\* Tee::new_from_url_with_uv
new_from_url_with_uv(url, uv, response, checks) ==
    LET fetched == fetch_image_from_url(url, response)
    IN  FromUrl(fetched,
                new_with_uv(fetched.bytes, uv, fetched.format, checks))

\* Tee::new_from_url
new_from_url(url, response, checks) ==
    LET fetched == fetch_image_from_url(url, response)
    IN  FromUrl(fetched, new(fetched.bytes, fetched.format, checks))

(***************************************************************************)
(* TeeBuilder                                                              *)
(***************************************************************************)
\* TeeBuilder::new(): the struct has the field url with the feature net only
TeeBuilder(net) ==
    IF net THEN [data |-> None, format |-> None, url |-> None, uv |-> None]
    ELSE [data |-> None, format |-> None, uv |-> None]

NoBuilder == [moved |-> TRUE]

with_data(self, data, format) ==
    [self EXCEPT !.data = Some(data), !.format = Some(format)]

with_url(self, url) == [self EXCEPT !.url = Some(url)]

with_uv(self, uv) == [self EXCEPT !.uv = Some(uv)]

\* what build did: the constructor it called, with which arguments, and
\* what the constructor returned
Built(via, data, format, url, uv, ret) ==
    [via |-> via, data |-> data, format |-> format, url |-> url, uv |-> uv,
     ret |-> ret]

\* build that prefers the URL to the data
build_url_first(self, response, checks) ==
    IF "url" \in DOMAIN self /\ self.url.some
    THEN IF self.uv.some
         THEN Built("new_from_url_with_uv", None, None, self.url, self.uv,
                    new_from_url_with_uv(self.url.value, self.uv.value,
                                         response, checks))
         ELSE Built("new_from_url", None, None, self.url, None,
                    new_from_url(self.url.value, response, checks))
    ELSE IF self.data.some /\ self.format.some
    THEN IF self.uv.some
         THEN Built("new_with_uv", self.data, self.format, None, self.uv,
                    new_with_uv(self.data.value, self.uv.value,
                                self.format.value, checks))
         ELSE Built("new", self.data, self.format, None, None,
                    new(self.data.value, self.format.value, checks))
    ELSE Built("none", None, None, None, None,
               Failed("InvalidBuilderConfiguration", NoErr, <<>>, <<>>))

\* build that takes a layout for a configuration
build_uv_suffices(self, response, checks) ==
    IF self.data.some /\ self.format.some
    THEN IF self.uv.some
         THEN Built("new_with_uv", self.data, self.format, None, self.uv,
                    new_with_uv(self.data.value, self.uv.value,
                                self.format.value, checks))
         ELSE Built("new", self.data, self.format, None, None,
                    new(self.data.value, self.format.value, checks))
    ELSE IF "url" \in DOMAIN self /\ ~self.data.some /\ ~self.format.some
            /\ self.url.some
    THEN IF self.uv.some
         THEN Built("new_from_url_with_uv", None, None, self.url, self.uv,
                    new_from_url_with_uv(self.url.value, self.uv.value,
                                         response, checks))
         ELSE Built("new_from_url", None, None, self.url, None,
                    new_from_url(self.url.value, response, checks))
    ELSE IF self.uv.some
    THEN Built("new_with_uv", self.data, self.format, None, self.uv,
               Failed("Image", NoErr, <<"decode">>, <<>>))
    ELSE Built("none", None, None, None, None,
               Failed("InvalidBuilderConfiguration", NoErr, <<>>, <<>>))

\* TeeBuilder::build, in its two versions: with the feature net the match
\* is on (data, format, url, uv), without it on (data, format, uv)
build(self, response, checks) ==
    IF self.data.some /\ self.format.some
    THEN IF self.uv.some
         THEN Built("new_with_uv", self.data, self.format, None, self.uv,
                    new_with_uv(self.data.value, self.uv.value,
                                self.format.value, checks))
         ELSE Built("new", self.data, self.format, None, None,
                    new(self.data.value, self.format.value, checks))
    ELSE IF "url" \in DOMAIN self /\ ~self.data.some /\ ~self.format.some
            /\ self.url.some
    THEN IF self.uv.some
         THEN Built("new_from_url_with_uv", None, None, self.url, self.uv,
                    new_from_url_with_uv(self.url.value, self.uv.value,
                                         response, checks))
         ELSE Built("new_from_url", None, None, self.url, None,
                    new_from_url(self.url.value, response, checks))
    ELSE Built("none", None, None, None, None,
               Failed("InvalidBuilderConfiguration", NoErr, <<>>, <<>>))

(***************************************************************************)
(* Reading the eyes and the parts                                          *)
(***************************************************************************)
\* Tee::get_eye: the element at index(type), which must carry the variant
\* of the requested type; any other pair is the unreachable!() branch
get_eye(t, type) ==
    LET idx == index(type) IN
    IF t.eye[idx].tag = type
    THEN [kind |-> "Ok", img |-> t.eye[idx].img, idx |-> idx]
    ELSE [kind |-> "Panic", img |-> NoImage, idx |-> idx]

\* Tee::get_all_parts: Body, Feet and Hand, each with its shadow
get_all_parts(t) ==
    [part \in {"Body", "Feet", "Hand"} |->
        CASE part = "Body" -> t.body
          [] part = "Feet" -> t.feet
          [] part = "Hand" -> t.hand]

\* Tee::get_all_eyes: get_eye of each of the six types
get_all_eyes(t) ==
    IF \E type \in EyeType : get_eye(t, type).kind = "Panic"
    THEN [kind |-> "Panic", eyes |-> [type \in EyeType |-> NoImage]]
    ELSE [kind |-> "Ok",
          eyes |-> [type \in EyeType |-> get_eye(t, type).img]]

(***************************************************************************)
(* Exact fractions <<numerator, denominator>> with a positive denominator: *)
(* the scale factors of a Skin.                                            *)
(***************************************************************************)
RECURSIVE GCD(_, _)
GCD(a, b) == IF b = 0 THEN a ELSE GCD(b, a % b)

Abs(n) == IF n < 0 THEN -n ELSE n

Frac(n, d) ==
    LET g == GCD(Abs(n), d) IN
    IF n = 0 THEN <<0, 1>> ELSE <<n \div g, d \div g>>

FMul(a, b) == Frac(a[1] * b[1], a[2] * b[2])

\* f32::floor
Floor(a) == a[1] \div a[2]

One == <<1, 1>>

(***************************************************************************)
(* f32 arithmetic                                                          *)
(*                                                                         *)
(* A finite f32 is <<m, e>>, the number m * 2^e: zero is <<0, 0>>, a       *)
(* normal number has 2^23 <= |m| < 2^24 and a subnormal one has e = -149.  *)
(* Every operation computes the exact result and rounds it to the nearest  *)
(* f32, ties to the even significand, as IEEE 754 does.  The operands of   *)
(* the operations are normal numbers or zero, far below f32::MAX.          *)
(***************************************************************************)
\* In(value), with value computed once
Let(value, In(_)) == CHOOSE r \in {In(v) : v \in {value}} : TRUE

\* the number of binary digits of a natural number below 2^31
BitLen(n) ==
    IF n >= 1073741824 THEN 31
    ELSE IF n >= 536870912 THEN 30
    ELSE IF n >= 268435456 THEN 29
    ELSE IF n >= 134217728 THEN 28
    ELSE IF n >= 67108864 THEN 27
    ELSE IF n >= 33554432 THEN 26
    ELSE IF n >= 16777216 THEN 25
    ELSE IF n >= 8388608 THEN 24
    ELSE CHOOSE k \in 0 .. 23 : n < 2^k /\ (k = 0 \/ 2^(k - 1) <= n)

\* |m|
Mag(m) == IF m < 0 THEN 0 - m ELSE m

\* m with its sign
Signed(neg, m) == IF neg THEN 0 - m ELSE m

\* the digits to drop from n * 2^e to keep 24, or fewer below 2^-126
ShiftFor(n, e) ==
    Let(BitLen(n) - 24,
        LAMBDA wide : IF e + wide < -149 THEN -149 - e ELSE wide)

\* n * 2^e with its last k digits rounded away
Rounded(neg, n, e, sticky, k) ==
    IF n = 0 THEN <<0, 0>>
    ELSE IF k <= 0 THEN <<Signed(neg, n * 2^(0 - k)), e + k>>
    ELSE Let(<<n \div 2^k, n % 2^k, 2^(k - 1)>>,
             LAMBDA d :
                 Let(IF d[2] > d[3]
                        \/ (d[2] = d[3] /\ (sticky \/ d[1] % 2 = 1))
                     THEN d[1] + 1 ELSE d[1],
                     LAMBDA m :
                         IF m = 2^24 THEN <<Signed(neg, 2^23), e + k + 1>>
                         ELSE <<Signed(neg, m), e + k>>))

\* the f32 nearest to (-1)^neg * (n + f) * 2^e, where n is a natural number
\* and f is 0, or some fraction in (0, 1) when sticky
F32Round(neg, n, e, sticky) ==
    Let(<<neg, n, e, sticky>>,
        LAMBDA v :
            Let(ShiftFor(v[2], v[3]),
                LAMBDA k : Rounded(v[1], v[2], v[3], v[4], k)))

\* n as f32
F32Of(n) == Let(n, LAMBDA v : F32Round(v < 0, Mag(v), 0, FALSE))

\* n / 2^k as f32
F32Scaled(n, k) == F32Round(n < 0, Mag(n), 0 - k, FALSE)

\* f32::abs
F32Abs(a) == Let(a, LAMBDA v : <<Mag(v[1]), v[2]>>)

\* a + b where the exponent of a is not below that of b: b is brought to
\* the exponent of a with six more digits, the digits beyond are sticky
F32AddOrdered(a, b) ==
    LET d == a[2] - b[2]
        near == a[1] * 2^d + b[1]
        kept == IF d - 6 >= 24 THEN 0 ELSE Mag(b[1]) \div 2^(d - 6)
        lost == IF d - 6 >= 24 THEN TRUE ELSE Mag(b[1]) % 2^(d - 6) # 0
        same == (a[1] < 0) = (b[1] < 0)
        far == IF same THEN Mag(a[1]) * 64 + kept
               ELSE IF lost THEN Mag(a[1]) * 64 - kept - 1
               ELSE Mag(a[1]) * 64 - kept
    IN  IF d <= 6 THEN F32Round(near < 0, Mag(near), b[2], FALSE)
        ELSE F32Round(a[1] < 0, far, a[2] - 6, lost)

\* a + b of two values
F32AddValues(a, b) ==
    IF a[1] = 0 THEN b
    ELSE IF b[1] = 0 THEN a
    ELSE IF a[2] >= b[2] THEN F32AddOrdered(a, b)
    ELSE F32AddOrdered(b, a)

\* a + b
F32Add(a, b) == Let(<<a, b>>, LAMBDA v : F32AddValues(v[1], v[2]))

\* a - b
F32Sub(a, b) ==
    Let(<<a, b>>, LAMBDA v : F32AddValues(v[1], <<0 - v[2][1], v[2][2]>>))

\* a * b of two values: the 48-digit product of the significands from their
\* 12-digit halves, rounded
F32MulValues(a, b) ==
    LET ma == Mag(a[1])
        mb == Mag(b[1])
        mid == (ma \div 4096) * (mb % 4096) + (ma % 4096) * (mb \div 4096)
        low == (ma % 4096) * (mb % 4096) + (mid % 4096) * 4096
        high == (ma \div 4096) * (mb \div 4096) + mid \div 4096
                    + low \div 2^24
        rest == low % 2^24
    IN  IF ma = 0 \/ mb = 0 THEN <<0, 0>>
        ELSE IF high = 0
        THEN F32Round((a[1] < 0) # (b[1] < 0), rest, a[2] + b[2], FALSE)
        ELSE F32Round((a[1] < 0) # (b[1] < 0),
                      high * 64 + rest \div 2^18, a[2] + b[2] + 18,
                      rest % 2^18 # 0)

\* a * b
F32Mul(a, b) == Let(<<a, b>>, LAMBDA v : F32MulValues(v[1], v[2]))

\* a / d of a value a and a whole number d in 1 .. 255: the quotient to 28
\* digits, rounded
F32DivValue(a, d) ==
    IF a[1] = 0 THEN <<0, 0>>
    ELSE Let(28 - BitLen(Mag(a[1]) \div d),
             LAMBDA steps :
                 Let((Mag(a[1]) % d) * 2^steps,
                     LAMBDA rest :
                         F32Round(a[1] < 0,
                                  (Mag(a[1]) \div d) * 2^steps + rest \div d,
                                  a[2] - steps, rest % d # 0)))

\* a / d for a whole number d in 1 .. 255
F32DivBy(a, d) == Let(a, LAMBDA v : F32DivValue(v, d))

\* a % 2.0: exact, with the sign of a
F32Rem2(a) ==
    Let(a, LAMBDA v :
               IF v[2] >= 1 THEN <<0, 0>>
               ELSE F32Round(v[1] < 0,
                             IF 1 - v[2] > 24 THEN Mag(v[1])
                             ELSE Mag(v[1]) % 2^(1 - v[2]),
                             v[2], FALSE))

\* f32::floor as an integer, for |a| < 2^24
F32Floor(a) ==
    Let(a, LAMBDA v :
               IF v[2] >= 0 THEN v[1] * 2^v[2]
               ELSE IF 0 - v[2] > 30 THEN (IF v[1] < 0 THEN -1 ELSE 0)
               ELSE v[1] \div 2^(0 - v[2]))

\* a <= b
F32Leq(a, b) == F32Sub(a, b)[1] <= 0

\* a < b
F32Lt(a, b) == F32Sub(a, b)[1] < 0

\* a / b for a divisor that is a power of two, as 1.0 - DARKEST_LGT is: the
\* quotient is exact
F32DivPow2(a, b) ==
    Let(<<a, b>>,
        LAMBDA v : IF v[1][1] = 0 THEN <<0, 0>>
                   ELSE <<Signed(v[2][1] < 0, v[1][1]),
                          v[1][2] - v[2][2] - 23>>)

\* a.clamp(lo, hi)
F32Clamp(a, lo, hi) ==
    Let(a, LAMBDA v : IF ~F32Leq(lo, v) THEN lo
                      ELSE IF ~F32Leq(v, hi) THEN hi
                      ELSE v)

\* n / d as f32, for whole numbers n and d with d in 1 .. 255
F32Frac(n, d) == F32DivBy(F32Of(n), d)

\* the literals 0.0, 1.0, 2.0, 6.0 and 255.0
F32Zero == <<0, 0>>

F32One == F32Of(1)

F32Two == F32Of(2)

F32Six == F32Of(6)

F32Byte == F32Of(255)

(***************************************************************************)
(* Colour transforms                                                       *)
(***************************************************************************)
\* DARKEST_LGT
DARKEST_LGT == F32Frac(1, 2)

\* ddnet_color_to_hsl without the lightness remap
ddnet_color_to_hsl_dark(color) ==
    <<F32DivBy(F32Of(color.hi % 256), 255),
      F32DivBy(F32Of(color.lo \div 256), 255),
      F32DivBy(F32Of(color.lo % 256), 255)>>

\* ddnet_color_to_hsl that does not mask the hue field
ddnet_color_to_hsl_unmasked(color) ==
    LET l_compressed == F32DivBy(F32Of(color.lo % 256), 255) IN
    <<F32DivBy(F32Of(color.hi), 255),
      F32DivBy(F32Of(color.lo \div 256), 255),
      F32Add(DARKEST_LGT,
             F32Mul(l_compressed, F32Sub(F32One, DARKEST_LGT)))>>

\* ddnet_color_to_hsl of the u32 color [hi, lo]: (color >> 16) & 0xFF is the
\* low byte of hi, (color >> 8) & 0xFF the high byte of lo and color & 0xFF
\* the low byte of lo
ddnet_color_to_hsl(color) ==
    LET h_raw == F32Of(color.hi % 256)
        s_raw == F32Of(color.lo \div 256)
        l_raw == F32Of(color.lo % 256)
        h == F32DivBy(h_raw, 255)
        s == F32DivBy(s_raw, 255)
        l_compressed == F32DivBy(l_raw, 255)
        l == F32Add(DARKEST_LGT,
                    F32Mul(l_compressed, F32Sub(F32One, DARKEST_LGT)))
    IN  <<h, s, l>>

\* hsl_to_rgb with the mapping of sector 4 in the sectors from 5 on
hsl_to_rgb_sector4(hsl) ==
    Let(F32Mul(hsl[1], F32Six), LAMBDA h1 :
    Let(F32Mul(F32Sub(F32One,
                      F32Abs(F32Sub(F32Mul(F32Two, hsl[3]), F32One))),
               hsl[2]), LAMBDA c :
    Let(F32Mul(c, F32Sub(F32One, F32Abs(F32Sub(F32Rem2(h1), F32One)))),
        LAMBDA x :
    Let(F32Floor(h1), LAMBDA sector :
    Let(CASE sector = 0 -> <<c, x, F32Zero>>
          [] sector = 1 -> <<x, c, F32Zero>>
          [] sector = 2 -> <<F32Zero, c, x>>
          [] sector = 3 -> <<F32Zero, x, c>>
          [] sector = 4 -> <<x, F32Zero, c>>
          [] sector \in {5, 6} -> <<x, F32Zero, c>>
          [] OTHER -> <<x, F32Zero, c>>, LAMBDA rgb :
    Let(F32Sub(hsl[3], F32DivBy(c, 2)), LAMBDA m :
        <<F32Add(rgb[1], m), F32Add(rgb[2], m), F32Add(rgb[3], m)>>))))))

\* hsl_to_rgb: h1, c, x, the match on the sector, and m, in turn
hsl_to_rgb(hsl) ==
    Let(F32Mul(hsl[1], F32Six), LAMBDA h1 :
    Let(F32Mul(F32Sub(F32One,
                      F32Abs(F32Sub(F32Mul(F32Two, hsl[3]), F32One))),
               hsl[2]), LAMBDA c :
    Let(F32Mul(c, F32Sub(F32One, F32Abs(F32Sub(F32Rem2(h1), F32One)))),
        LAMBDA x :
    Let(F32Floor(h1), LAMBDA sector :
    Let(CASE sector = 0 -> <<c, x, F32Zero>>
          [] sector = 1 -> <<x, c, F32Zero>>
          [] sector = 2 -> <<F32Zero, c, x>>
          [] sector = 3 -> <<F32Zero, x, c>>
          [] sector = 4 -> <<x, F32Zero, c>>
          [] sector \in {5, 6} -> <<c, F32Zero, x>>
          [] OTHER -> <<c, F32Zero, x>>, LAMBDA rgb :
    Let(F32Sub(hsl[3], F32DivBy(c, 2)), LAMBDA m :
        <<F32Add(rgb[1], m), F32Add(rgb[2], m), F32Add(rgb[3], m)>>))))))

\* (v * 255.0).clamp(0.0, 255.0) as u32
AsByte(v) == F32Floor(F32Clamp(F32Mul(v, F32Byte), F32Zero, F32Byte))

\* hsl_to_ddnet_color of tests/hsl.rs: (h_byte << 16) | (s_byte << 8) |
\* l_byte + 1, where + binds tighter than |, so that a low field of 256 is
\* or-ed into the lowest bit of s_byte
hsl_to_ddnet_color(h, sat, l) ==
    Let(F32Clamp(F32DivPow2(F32Sub(l, DARKEST_LGT),
                            F32Sub(F32One, DARKEST_LGT)),
                 F32Zero, F32One),
        LAMBDA l_clamped :
            Let(<<AsByte(h), AsByte(sat), AsByte(l_clamped) + 1>>,
                LAMBDA b :
                    [hi |-> b[1],
                     lo |-> IF b[3] < 256 THEN b[2] * 256 + b[3]
                            ELSE (b[2] + 1 - (b[2] % 2)) * 256]))

\* ((channel as f32 / 255.0 * factor) * 255.0).clamp(0.0, 255.0) as u8
Recolored(channel, factor) ==
    F32Floor(F32Clamp(F32Mul(F32Mul(F32DivBy(F32Of(channel), 255), factor),
                             F32Byte),
                      F32Zero, F32Byte))

\* img_hsl_transform that scales the alpha channel with the blue factor
img_hsl_transform_alpha(image, hsl) ==
    Let(hsl_to_rgb(hsl), LAMBDA rgb :
        Image(image.width, image.height,
              [p \in DOMAIN image.px |->
                  <<Recolored(image.px[p][1], rgb[1]),
                    Recolored(image.px[p][2], rgb[2]),
                    Recolored(image.px[p][3], rgb[3]),
                    Recolored(image.px[p][4], rgb[3])>>]))

\* img_hsl_transform: every pixel's r, g and b are scaled by the factors of
\* hsl_to_rgb(hsl); alpha is left alone
img_hsl_transform(image, hsl) ==
    Let(hsl_to_rgb(hsl), LAMBDA rgb :
        Image(image.width, image.height,
              [p \in DOMAIN image.px |->
                  <<Recolored(image.px[p][1], rgb[1]),
                    Recolored(image.px[p][2], rgb[2]),
                    Recolored(image.px[p][3], rgb[3]),
                    image.px[p][4]>>]))

\* enum TeePart
TeePart == {"Body", "BodyShadow", "Feet", "FeetShadow", "Hand", "HandShadow"}

\* the body of the loop of apply_hsl_to_parts for one part name
apply_hsl_to_part(t, hsl, part) ==
    CASE part = "Body" ->
           [t EXCEPT !.body.value = img_hsl_transform(@, hsl)]
      [] part = "BodyShadow" ->
           [t EXCEPT !.body.shadow = img_hsl_transform(@, hsl)]
      [] part = "Feet" ->
           [t EXCEPT !.feet.value = img_hsl_transform(@, hsl)]
      [] part = "FeetShadow" ->
           [t EXCEPT !.feet.shadow = img_hsl_transform(@, hsl)]
      [] part = "Hand" ->
           [t EXCEPT !.hand.value = img_hsl_transform(@, hsl)]
      [] part = "HandShadow" ->
           [t EXCEPT !.hand.shadow = img_hsl_transform(@, hsl)]

\* Tee::apply_hsl_to_parts: the loop over the slice, element by element
RECURSIVE apply_hsl_to_parts(_, _, _)
apply_hsl_to_parts(t, hsl, parts) ==
    IF parts = <<>> THEN t
    ELSE apply_hsl_to_parts(apply_hsl_to_part(t, hsl, Head(parts)), hsl,
                            Tail(parts))

\* Tee::apply_hsl_to_all that transforms the eyes as well
apply_hsl_to_all_and_eyes(t, hls) ==
    [apply_hsl_to_parts(t, hls, <<"Body", "BodyShadow", "Feet", "FeetShadow",
                                  "Hand", "HandShadow">>)
       EXCEPT !.eye = [k \in 0 .. 5 |->
                         [@[k] EXCEPT !.img = img_hsl_transform(@, hls)]]]

\* Tee::apply_hsl_to_all
apply_hsl_to_all(t, hls) ==
    apply_hsl_to_parts(t, hls, <<"Body", "BodyShadow", "Feet", "FeetShadow",
                                 "Hand", "HandShadow">>)

(***************************************************************************)
(* Composition                                                             *)
(***************************************************************************)
\* struct Skin: each slot is <<<<x, y>>, scale>>, container is <<w, h>>
Skin(body, feet, feet_back, first_eyes, second_eyes, container) ==
    [body |-> body, feet |-> feet, feet_back |-> feet_back,
     first_eyes |-> first_eyes, second_eyes |-> second_eyes,
     container |-> container]

\* f32 values beyond the fractions: <<1, 0>> is +inf, <<-1, 0>> is -inf and
\* <<0, 0>> is NaN
Infinity == <<1, 0>>

NaN == <<0, 0>>

\* n as f32 * factor for an integer n >= 0
Times(n, factor) ==
    IF factor[2] # 0 THEN FMul(<<n, 1>>, factor)
    ELSE IF n = 0 \/ factor[1] = 0 THEN NaN
    ELSE factor

\* `as u32` of a float: truncation toward zero; negative values and NaN give
\* 0, values above u32::MAX give u32::MAX (the finite products of the model
\* stay below 2^16)
AsU32(v) ==
    IF v[2] = 0 THEN (IF v[1] > 0 THEN U32_MAX ELSE U32(0))
    ELSE IF v[1] <= 0 THEN U32(0)
    ELSE U32(Floor(v))

\* skin::scale with the width and height swapped
scale_transposed(size, factor) ==
    <<AsU32(Times(size[2], factor)), AsU32(Times(size[1], factor))>>

\* skin::scale
scale(size, factor) ==
    <<AsU32(Times(size[1], factor)), AsU32(Times(size[2], factor))>>

\* RgbaImage::new: transparent black
Blank(w, h) == Image(w, h, [p \in Grid(w, h) |-> <<0, 0, 0, 0>>])

\* imageops::resize: nothing to sample from gives a blank image, equal
\* sizes give a copy; otherwise every target pixel is sampled from the
\* source around its centre (the filter kernel is reduced to the source
\* pixel under the centre)
resize(image, nwidth, nheight) ==
    IF image.width = 0 \/ image.height = 0 THEN Blank(nwidth, nheight)
    ELSE IF <<nwidth, nheight>> = <<image.width, image.height>> THEN image
    ELSE Image(nwidth, nheight,
               [p \in Grid(nwidth, nheight) |->
                   image.px[<<((2 * p[1] + 1) * image.width)
                                \div (2 * nwidth),
                              ((2 * p[2] + 1) * image.height)
                                \div (2 * nheight)>>]])

\* a flip about the horizontal axis instead
flip_vertical(image) ==
    Image(image.width, image.height,
          [p \in Grid(image.width, image.height) |->
              image.px[<<p[1], image.height - 1 - p[2]>>]])

\* imageops::flip_horizontal
flip_horizontal(image) ==
    Image(image.width, image.height,
          [p \in Grid(image.width, image.height) |->
              image.px[<<image.width - 1 - p[1], p[2]>>]])

\* Rgba::blend: source-over; a transparent source leaves the pixel, an
\* opaque one replaces it
blend(bg, fg) ==
    IF fg[4] = 0 THEN bg
    ELSE IF fg[4] = 255 THEN fg
    ELSE LET alpha == 255 * bg[4] + 255 * fg[4] - bg[4] * fg[4]
             mix(k) == (255 * fg[k] * fg[4] + bg[k] * bg[4] * (255 - fg[4]))
                       \div alpha
         IN  <<mix(1), mix(2), mix(3), alpha \div 255>>

\* imageops::overlay: top is blended onto bottom with its corner at (x, y);
\* what falls outside bottom is dropped
overlay(bottom, top, x, y) ==
    Image(bottom.width, bottom.height,
          [p \in Grid(bottom.width, bottom.height) |->
              IF /\ p[1] - x \in 0 .. top.width - 1
                 /\ p[2] - y \in 0 .. top.height - 1
              THEN blend(bottom.px[p], top.px[<<p[1] - x, p[2] - y>>])
              ELSE bottom.px[p]])

\* one call of the compose closure: which buffer at which slot, with the
\* layout rectangle that gives its size
Layer(name, image, slot, ps, uv_part) ==
    [layer |-> name, image |-> image, slot |-> slot, ps |-> ps,
     uv_part |-> uv_part]

\* Tee::compose_layers with the front feet drawn before the eyes
compose_layers_feet_early(t, skin, eye_type) ==
    LET eye == get_eye(t, eye_type)
        below ==
          <<Layer("body.shadow", t.body.shadow, "body", skin.body,
                  t.used_uv.body_shadow),
            Layer("feet.shadow", t.feet.shadow, "feet_back", skin.feet_back,
                  t.used_uv.feet_shadow),
            Layer("feet.shadow", t.feet.shadow, "feet", skin.feet,
                  t.used_uv.feet_shadow),
            Layer("feet.value", t.feet.value, "feet_back", skin.feet_back,
                  t.used_uv.feet),
            Layer("body.value", t.body.value, "body", skin.body,
                  t.used_uv.body)>>
    IN  IF eye.kind = "Panic" THEN [kind |-> "Panic", layers |-> below]
        ELSE [kind |-> "Ok",
              layers |-> below \o
                <<Layer("feet.value", t.feet.value, "feet", skin.feet,
                        t.used_uv.feet),
                  Layer("eye", eye.img, "first_eyes", skin.first_eyes,
                        t.used_uv.eyes[0]),
                  Layer("eye.flipped", flip_horizontal(eye.img),
                        "second_eyes", skin.second_eyes,
                        t.used_uv.eyes[0])>>]

\* Tee::compose_layers with the body drawn over the eyes
compose_layers_eyes_early(t, skin, eye_type) ==
    LET eye == get_eye(t, eye_type)
        below ==
          <<Layer("body.shadow", t.body.shadow, "body", skin.body,
                  t.used_uv.body_shadow),
            Layer("feet.shadow", t.feet.shadow, "feet_back", skin.feet_back,
                  t.used_uv.feet_shadow),
            Layer("feet.shadow", t.feet.shadow, "feet", skin.feet,
                  t.used_uv.feet_shadow),
            Layer("feet.value", t.feet.value, "feet_back", skin.feet_back,
                  t.used_uv.feet)>>
    IN  IF eye.kind = "Panic" THEN [kind |-> "Panic", layers |-> below]
        ELSE [kind |-> "Ok",
              layers |-> below \o
                <<Layer("eye", eye.img, "first_eyes", skin.first_eyes,
                        t.used_uv.eyes[0]),
                  Layer("eye.flipped", flip_horizontal(eye.img),
                        "second_eyes", skin.second_eyes,
                        t.used_uv.eyes[0]),
                  Layer("body.value", t.body.value, "body", skin.body,
                        t.used_uv.body),
                  Layer("feet.value", t.feet.value, "feet", skin.feet,
                        t.used_uv.feet)>>]

\* Tee::compose_layers: the calls of the compose closure, in order
compose_layers(t, skin, eye_type) ==
    LET eye == get_eye(t, eye_type)
        below ==
          <<Layer("body.shadow", t.body.shadow, "body", skin.body,
                  t.used_uv.body_shadow),
            Layer("feet.shadow", t.feet.shadow, "feet_back", skin.feet_back,
                  t.used_uv.feet_shadow),
            Layer("feet.shadow", t.feet.shadow, "feet", skin.feet,
                  t.used_uv.feet_shadow),
            Layer("feet.value", t.feet.value, "feet_back", skin.feet_back,
                  t.used_uv.feet),
            Layer("body.value", t.body.value, "body", skin.body,
                  t.used_uv.body)>>
    IN  IF eye.kind = "Panic" THEN [kind |-> "Panic", layers |-> below]
        ELSE [kind |-> "Ok",
              layers |-> below \o
                <<Layer("eye", eye.img, "first_eyes", skin.first_eyes,
                        t.used_uv.eyes[0]),
                  Layer("eye.flipped", flip_horizontal(eye.img),
                        "second_eyes", skin.second_eyes,
                        t.used_uv.eyes[0]),
                  Layer("feet.value", t.feet.value, "feet", skin.feet,
                        t.used_uv.feet)>>]

\* the size the compose closure asks resize for
Target(l) == scale(<<l.uv_part.w.lo, l.uv_part.h.lo>>, l.ps[2])

\* ImageBuffer::new(width, height) of 4-channel pixels panics when the
\* buffer length 4 * width * height overflows usize: it does on every
\* target when both sides are at least 2^31
ImageBufferOverflows(size) ==
    size[1].hi >= Limb \div 2 /\ size[2].hi >= Limb \div 2

\* how imageops::resize to a target size ends: it panics on a result
\* buffer that cannot exist; it returns when a side is 0 or both sides are
\* small; the images between (a side of 2^16 pixels or more) are beyond
\* the images of the model
ResizeKind(size) ==
    IF ImageBufferOverflows(size) THEN "Panic"
    ELSE IF size[1] = U32(0) \/ size[2] = U32(0) THEN "Ok"
    ELSE IF size[1].hi = 0 /\ size[2].hi = 0 THEN "Ok"
    ELSE "Huge"

\* the resized image the compose closure hands to overlay
Resized(l) ==
    LET size == Target(l) IN
    IF size[1].hi = 0 /\ size[2].hi = 0
    THEN resize(l.image, size[1].lo, size[2].lo)
    ELSE NoImage

\* one call of the compose closure: buffer, slot, position, the image it
\* was handed, the target size, how the resize ended and the resized image
Drawn(l) ==
    [layer |-> l.layer, slot |-> l.slot, at |-> l.ps[1], handed |-> l.image,
     target |-> Target(l), kind |-> ResizeKind(Target(l)),
     image |-> Resized(l)]

\* the number of calls of the compose closure that return, of the calls
\* from k on
RECURSIVE Returned(_, _)
Returned(calls, k) ==
    IF k > Len(calls) \/ calls[k].kind # "Ok" THEN 0
    ELSE 1 + Returned(calls, k + 1)

\* the overlays of the calls from k on, up to the first call that does not
\* return
RECURSIVE DrawFrom(_, _, _)
DrawFrom(cv, calls, k) ==
    IF k > Len(calls) \/ calls[k].kind # "Ok" THEN cv
    ELSE DrawFrom(overlay(cv, calls[k].image, calls[k].at[1], calls[k].at[2]),
                  calls, k + 1)

\* the calls of the compose closure that compose_layers makes
Calls(layers) == [k \in 1 .. Len(layers) |-> Drawn(layers[k])]

\* canvas.write_to: the codec encodes the canvas or refuses the format
write_to(cv, img_format) ==
    IF img_format = "Png" THEN [kind |-> "Ok", bytes |-> cv]
    ELSE [kind |-> "Image", bytes |-> NoImage]

\* Tee::compose with a canvas that is kept from one call to the next
compose_accumulating(t, skin, eye_type, img_format) ==
    LET cl == compose_layers(t, skin, eye_type)
        calls == Calls(cl.layers)
        kept == res.op = "compose" /\ res.skin.container = skin.container
        cv == DrawFrom(IF kept THEN res.ret.canvas
                       ELSE Blank(skin.container[1], skin.container[2]),
                       calls, 1)
        enc == write_to(cv, img_format)
    IN  [kind |-> enc.kind, bytes |-> enc.bytes, canvas |-> cv,
         draws |-> calls]

\* Tee::compose: draws holds the calls of the closure that returned
compose(t, skin, eye_type, img_format) ==
    LET cl == compose_layers(t, skin, eye_type)
        calls == Calls(cl.layers)
        n == Returned(calls, 1)
        cv == DrawFrom(Blank(skin.container[1], skin.container[2]), calls, 1)
        enc == write_to(cv, img_format)
    IN  IF n < Len(calls)
        THEN [kind |-> calls[n + 1].kind, bytes |-> NoImage, canvas |-> cv,
              draws |-> SubSeq(calls, 1, n)]
        ELSE IF cl.kind = "Panic"
        THEN [kind |-> "Panic", bytes |-> NoImage, canvas |-> cv,
              draws |-> calls]
        ELSE [kind |-> enc.kind, bytes |-> enc.bytes, canvas |-> cv,
              draws |-> calls]

(***************************************************************************)
(* Inputs                                                                  *)
(***************************************************************************)
\* the pixel of a source image: its colour encodes its position
SheetPixel(kind, x, y) ==
    <<255 - x, 100 + y, 128,
      IF kind = "opaque" \/ (kind = "mixed" /\ x % 2 = 0) THEN 255 ELSE 0>>

SheetKinds == {"opaque", "mixed"}

Sheet(w, h, kind) ==
    Image(w, h, [p \in Grid(w, h) |-> SheetPixel(kind, p[1], p[2])])

Sheets == {Sheet(w, h, kind) : w \in 1 .. MaxDim, h \in 1 .. MaxDim,
                               kind \in SheetKinds}

\* rectangle fields: everything around the image sizes and the top of u32
Coords == {U32(n) : n \in 0 .. MaxDim + 1} \cup {U32Top(0), U32Top(1)}

AllParts == {Part(x, y, w, h) : x \in Coords, y \in Coords,
                                w \in Coords, h \in Coords}

\* a smaller set with rectangles of every kind, for calls that take several
FewCoords == {U32(0), U32(1), U32_MAX}

FewSizes == {U32(1), U32(MaxDim)}

SomeParts == {Part(x, y, w, h) : x \in FewCoords, y \in FewCoords,
                                 w \in FewSizes, h \in FewSizes}

\* six eye rectangles: a fitting row of rectangles with two of them replaced
EyeRow == [k \in 0 .. 5 |-> Part(U32(0), U32(0), U32(k % 2), U32(1))]

EyeLists(parts) ==
    {[k \in 0 .. 5 |-> IF k = i THEN a ELSE IF k = j THEN b ELSE EyeRow[k]] :
       i \in 0 .. 5, j \in 0 .. 5, a \in parts, b \in parts}

NoCall == [op |-> "none"]

\* the worker threads of the pool
Workers == 1 .. MaxWorkers

\* a worker: where it is in its loop, the pixel it took from the iterator
\* (by its position in the buffer, from 1), the channel it is at and the
\* value it read
Worker(pc, pixel, channel, value) ==
    [pc |-> pc, pixel |-> pixel, channel |-> channel, value |-> value]

\* no parallel pass is running
NoWorkers == [w \in Workers |-> Worker("idle", 0, 0, 0)]


(***************************************************************************)
(* The extraction functions on their own: Init draws the image and the     *)
(* build profile, each run makes one call.                                 *)
(***************************************************************************)
InitExtract ==
    /\ overflow_checks \in BOOLEAN
    /\ img \in Sheets
    /\ res = NoCall
    /\ tee = NoTee
    /\ recolors = 0
    /\ iter = 0
    /\ workers = NoWorkers
    /\ builder = NoBuilder
    /\ with_calls = <<>>

ExtractPart ==
    /\ res = NoCall
    /\ \E part \in AllParts :
          res' = [op |-> "extract_part", parts |-> <<part>>,
                  ret |-> extract_part(img, part, overflow_checks)]
    /\ UNCHANGED <<builder, with_calls, iter, workers, overflow_checks, img, tee, recolors>>

ExtractWithShadow ==
    /\ res = NoCall
    /\ \E part \in SomeParts, shadow_part \in SomeParts :
          res' = [op |-> "extract_with_shadow",
                  parts |-> <<part, shadow_part>>,
                  ret |-> extract_with_shadow(img, part, shadow_part,
                                              overflow_checks)]
    /\ UNCHANGED <<builder, with_calls, iter, workers, overflow_checks, img, tee, recolors>>

ExtractAllEyes ==
    /\ res = NoCall
    /\ \E eye_parts \in EyeLists(SomeParts) :
          res' = [op |-> "extract_all_eyes",
                  parts |-> [k \in 1 .. 6 |-> eye_parts[k - 1]],
                  ret |-> extract_all_eyes(img, eye_parts, overflow_checks)]
    /\ UNCHANGED <<builder, with_calls, iter, workers, overflow_checks, img, tee, recolors>>

NextExtract == ExtractPart \/ ExtractWithShadow \/ ExtractAllEyes

SpecExtract == InitExtract /\ [][NextExtract]_vars

(***************************************************************************)
(* The life of one Tee: it is parsed once, then recoloured, read and       *)
(* composed.                                                               *)
(***************************************************************************)
\* the twelve regions of a layout in extraction order: 0 .. 5 are body,
\* body_shadow, feet, feet_shadow, hand, hand_shadow, 6 .. 11 the eyes
Regions == 0 .. 11

AsUV(region, container) ==
    UV(region[0], region[1], region[2], region[3], region[4], region[5],
       [k \in 0 .. 5 |-> region[6 + k]], container)

RegionsOf(uv) ==
    <<uv.body, uv.body_shadow, uv.feet, uv.feet_shadow, uv.hand,
      uv.hand_shadow, uv.eyes[0], uv.eyes[1], uv.eyes[2], uv.eyes[3],
      uv.eyes[4], uv.eyes[5]>>

\* layouts whose regions all fit a w x h image: region n starts at the n-th
\* pixel (row-major, wrapping round) and is one pixel ("unit") or reaches
\* the image's lower right corner ("edge")
FittingRegion(w, h, variant, n) ==
    LET x == n % w
        y == (n \div w) % h
    IN  IF variant = "unit" THEN Part(U32(x), U32(y), U32(1), U32(1))
        ELSE Part(U32(x), U32(y), U32(w - x), U32(h - y))

Variants == {"unit", "edge"}

\* rectangles that fit no image of the model: beyond the right edge, beyond
\* the lower edge, and with an x + w that overflows 32 bits
BadParts == <<Part(U32(1), U32(0), U32(MaxDim), U32(1)),
              Part(U32(0), U32(1), U32(1), U32(MaxDim)),
              Part(U32_MAX, U32(0), U32(1), U32(1))>>

\* the fitting layout with region i replaced by the a-th and then region j
\* by the b-th bad rectangle (0 leaves the region as it is)
Layout(w, h, variant, i, a, j, b) ==
    AsUV([n \in Regions |->
            IF n = j /\ b > 0 THEN BadParts[b]
            ELSE IF n = i /\ a > 0 THEN BadParts[a]
            ELSE FittingRegion(w, h, variant, n)],
         <<U32(w), U32(h)>>)

\* the layouts made for a w x h sheet: any region, and then one of the
\* first or last parts or eyes, replaced
Layouts(w, h) ==
    {Layout(w, h, variant, i, a, j, b) :
       variant \in Variants, i \in Regions, j \in {0, 5, 6, 11},
       a \in 0 .. Len(BadParts), b \in 0 .. Len(BadParts)}

\* the bytes handed to the parser: undecodable, or the encoding of a sheet
Datas == {[decodable |-> FALSE, image |-> NoImage]}
         \cup {[decodable |-> TRUE, image |-> sheet] : sheet \in Sheets}

Init ==
    /\ overflow_checks \in BOOLEAN
    /\ img = NoImage
    /\ res = NoCall
    /\ tee = NoTee
    /\ recolors = 0
    /\ iter = 0
    /\ workers = NoWorkers
    /\ builder = NoBuilder
    /\ with_calls = <<>>

\* Tee::new_with_uv(data, uv, format) on its own, for every layout
ParseOnce ==
    /\ res = NoCall
    /\ \E w \in 1 .. MaxDim, h \in 1 .. MaxDim :
       \E uv \in Layouts(w, h), data \in Datas :
          LET ret == new_with_uv(data, uv, "Png", overflow_checks) IN
          /\ res' = [op |-> "new_with_uv", uv |-> uv,
                     decodable |-> data.decodable, ret |-> ret]
          /\ tee' = ret.tee
          /\ img' = data.image
    /\ UNCHANGED <<builder, with_calls, iter, workers, overflow_checks, recolors>>

NextParse == ParseOnce

SpecParse == Init /\ [][NextParse]_vars

\* the sheets and layouts of the Tees whose life is followed: a wide and a
\* tall sheet, with the fitting layouts of their sizes and those layouts
\* with one region replaced by a bad rectangle
TeeSizes == {<<MaxDim, 2>>, <<2, MaxDim>>}

TeeDatas ==
    {[decodable |-> FALSE, image |-> NoImage]}
    \cup {[decodable |-> TRUE, image |-> Sheet(size[1], size[2], kind)] :
            size \in TeeSizes, kind \in SheetKinds}

TeeLayouts ==
    {Layout(size[1], size[2], variant, i, a, 0, 0) :
       size \in TeeSizes, variant \in Variants, i \in {3, 8},
       a \in 0 .. Len(BadParts)}

\* let tee = Tee::new_with_uv(data, uv, format)
NewWithUv ==
    /\ res = NoCall
    /\ \E data \in TeeDatas, uv \in TeeLayouts :
          LET ret == new_with_uv(data, uv, "Png", overflow_checks) IN
          /\ res' = [op |-> "new_with_uv", uv |-> uv,
                     decodable |-> data.decodable, ret |-> ret]
          /\ tee' = ret.tee
          /\ img' = data.image
    /\ UNCHANGED <<builder, with_calls, iter, workers, overflow_checks, recolors>>

\* recolour factors: white (all factors 1) and a light orange (1, 3/4, 1/2)
HSLs == {<<F32Frac(0, 1), F32Frac(0, 1), F32Frac(1, 1)>>,
         <<F32Frac(1, 12), F32Frac(1, 1), F32Frac(3, 4)>>}

\* slices of part names
PartLists == {<<"Body">>, <<"Feet", "Feet">>,
              <<"HandShadow", "BodyShadow", "FeetShadow">>}

\* destination layouts: every slot at the origin at scale 1; and slots
\* spread over the canvas, partly outside it, at several scales
Skins ==
    {Skin(<<(<<0, 0>>), (<<1, 1>>)>>, <<(<<0, 0>>), (<<1, 1>>)>>,
          <<(<<0, 0>>), (<<1, 1>>)>>, <<(<<0, 0>>), (<<1, 1>>)>>,
          <<(<<1, 0>>), (<<1, 1>>)>>, <<3, 3>>),
     Skin(<<(<<1, 0>>), (<<2, 3>>)>>, <<(<<2, 1>>), (<<1, 1>>)>>,
          <<(<<-1, 1>>), (<<1, 1>>)>>, <<(<<1, 1>>), (<<1, 2>>)>>,
          <<(<<2, 1>>), (<<2, 1>>)>>, <<4, 3>>)}

\* output formats: one the codec encodes, one it refuses
ImageFormats == {"Png", "Unsupported"}

\* the arguments of the compose calls: every eye state on every destination
\* layout as PNG, and one call with the refused format
ComposeArgs ==
    {<<skin, eye_type, "Png">> : skin \in Skins, eye_type \in EyeType}
    \cup {<<skin, "Happy", "Unsupported">> : skin \in Skins}

\* tee.apply_hsl_to_parts(hsl, parts)
ApplyHslToParts ==
    /\ tee.ok
    /\ recolors < MaxRecolors
    /\ \E hsl \in HSLs, parts \in PartLists :
          /\ tee' = apply_hsl_to_parts(tee, hsl, parts)
          /\ res' = [op |-> "apply_hsl_to_parts", hsl |-> hsl,
                     parts |-> parts]
    /\ recolors' = recolors + 1
    /\ UNCHANGED <<builder, with_calls, iter, workers, overflow_checks, img>>

\* tee.apply_hsl_to_all(hsl)
ApplyHslToAll ==
    /\ tee.ok
    /\ recolors < MaxRecolors
    /\ \E hsl \in HSLs :
          /\ tee' = apply_hsl_to_all(tee, hsl)
          /\ res' = [op |-> "apply_hsl_to_all", hsl |-> hsl]
    /\ recolors' = recolors + 1
    /\ UNCHANGED <<builder, with_calls, iter, workers, overflow_checks, img>>

\* tee.compose(skin, eye_type, img_format)
Compose ==
    /\ tee.ok
    /\ \E args \in ComposeArgs :
          res' = [op |-> "compose", skin |-> args[1], eye_type |-> args[2],
                  img_format |-> args[3],
                  ret |-> compose(tee, args[1], args[2], args[3])]
    /\ UNCHANGED <<builder, with_calls, iter, workers, overflow_checks, img, tee, recolors>>

\* tee.get_eye(type)
GetEye ==
    /\ tee.ok
    /\ \E type \in EyeType :
          res' = [op |-> "get_eye", type |-> type, ret |-> get_eye(tee, type)]
    /\ UNCHANGED <<builder, with_calls, iter, workers, overflow_checks, img, tee, recolors>>

\* tee.get_all_parts()
GetAllParts ==
    /\ tee.ok
    /\ res' = [op |-> "get_all_parts", ret |-> get_all_parts(tee)]
    /\ UNCHANGED <<builder, with_calls, iter, workers, overflow_checks, img, tee, recolors>>

\* tee.get_all_eyes()
GetAllEyes ==
    /\ tee.ok
    /\ res' = [op |-> "get_all_eyes", ret |-> get_all_eyes(tee)]
    /\ UNCHANGED <<builder, with_calls, iter, workers, overflow_checks, img, tee, recolors>>

Next ==
    \/ NewWithUv
    \/ ApplyHslToParts
    \/ ApplyHslToAll
    \/ Compose
    \/ GetEye
    \/ GetAllParts
    \/ GetAllEyes

Spec == Init /\ [][Next]_vars

(***************************************************************************)
(* The colour functions on their own: each run makes one call.             *)
(***************************************************************************)
\* bytes whose quotients by 255 are fifths and thirds
Bytes == {0, 51, 85, 102, 153, 170, 204, 255}

\* bytes next to the ends and in the middle
OddBytes == {1, 127, 128, 254}

\* packed colours: every byte of Bytes and OddBytes in the three low bytes,
\* under a top byte that is clear, set in part or set
Colors ==
    {[hi |-> 256 * top + h, lo |-> 256 * sat + l] :
        top \in {0, 165, 255}, h \in Bytes \cup OddBytes,
        sat \in Bytes \cup OddBytes, l \in Bytes \cup OddBytes}

\* the f32 values of a set of fractions <<n, d>>
F32s(fractions) == {F32Frac(q[1], q[2]) : q \in fractions}

\* the values of h, s and l tried in [0, 1]: fractions, and 3 * 2^-26 and
\* 29 * 2^-10, for which 2.0 * l - 1.0 has to be rounded
Units ==
    F32s({<<0, 1>>, <<1, 6>>, <<1, 4>>, <<1, 3>>, <<1, 2>>, <<2, 3>>,
          <<5, 6>>, <<9, 10>>, <<1, 1>>})
    \cup {F32Scaled(3, 26), F32Scaled(29, 10)}

\* values outside [0, 1]
Beyond == F32s({<<-1, 2>>, <<3, 2>>})

\* HSL triples: all of Units, and those with one component out of [0, 1]
Triples ==
    (Units \X Units \X Units)
    \cup {<<h, F32Frac(1, 1), F32Frac(1, 2)>> : h \in Beyond}
    \cup {<<F32Frac(1, 3), sat, F32Frac(1, 2)>> : sat \in Beyond}
    \cup {<<F32Frac(1, 3), F32Frac(1, 1), l>> : l \in Beyond}

\* pixels with channel values at and between the ends, opaque or not
Palette ==
    {<<0, 1, 127, 255>>, <<255, 254, 128, 0>>, <<200, 100, 50, 77>>,
     <<255, 255, 255, 255>>}

\* pixel buffers: empty, one pixel, a row and a column of two
Buffers ==
    {NoImage}
    \cup {Image(1, 1, [p \in Grid(1, 1) |-> a]) : a \in Palette}
    \cup {Image(2, 1, [p \in Grid(2, 1) |-> IF p[1] = 0 THEN a ELSE b]) :
            a \in Palette, b \in Palette}
    \cup {Image(1, 2, [p \in Grid(1, 2) |-> IF p[2] = 0 THEN a ELSE b]) :
            a \in Palette, b \in Palette}

\* the triples ddnet_color_to_hsl gives for a sample of packed colours
DdnetTriples ==
    {ddnet_color_to_hsl([hi |-> h, lo |-> 256 * sat + l]) :
        h \in {0, 1, 85, 128, 254}, sat \in {0, 127, 255},
        l \in {0, 1, 128, 255}}

\* the triples the buffers are recoloured with
BufferTriples ==
    {<<h, sat, l>> \in Triples :
        \/ /\ h \in F32s({<<0, 1>>, <<1, 3>>, <<5, 6>>, <<1, 1>>})
           /\ sat \in F32s({<<1, 2>>, <<1, 1>>})
           /\ l \in F32s({<<1, 4>>, <<1, 2>>, <<9, 10>>, <<1, 1>>})
                     \cup {F32Scaled(3, 26)}
        \/ h \in Beyond \/ sat \in Beyond \/ l \in Beyond}
    \cup DdnetTriples

InitColor ==
    /\ overflow_checks = FALSE
    /\ img = NoImage
    /\ res = NoCall
    /\ tee = NoTee
    /\ recolors = 0
    /\ iter = 0
    /\ workers = NoWorkers
    /\ builder = NoBuilder
    /\ with_calls = <<>>

\* ddnet_color_to_hsl(color)
DdnetColorToHsl ==
    /\ res = NoCall
    /\ \E color \in Colors :
          res' = [op |-> "ddnet_color_to_hsl", color |-> color,
                  ret |-> ddnet_color_to_hsl(color)]
    /\ UNCHANGED <<builder, with_calls, iter, workers, overflow_checks, img, tee, recolors>>

\* hsl_to_rgb(hsl)
HslToRgb ==
    /\ res = NoCall
    /\ \E hsl \in Triples :
          res' = [op |-> "hsl_to_rgb", hsl |-> hsl, ret |-> hsl_to_rgb(hsl)]
    /\ UNCHANGED <<builder, with_calls, iter, workers, overflow_checks, img, tee, recolors>>

\* img_hsl_transform(&mut img, hsl): img is the buffer before the call
ImgHslTransform ==
    /\ res = NoCall
    /\ \E buffer \in Buffers, hsl \in BufferTriples :
          /\ img' = buffer
          /\ res' = [op |-> "img_hsl_transform", hsl |-> hsl,
                     ret |-> img_hsl_transform(buffer, hsl)]
    /\ UNCHANGED <<builder, with_calls, iter, workers, overflow_checks, tee, recolors>>

\* the packed colour 1900500 = 0x1CFFD4
Color1900500 == [hi |-> 28, lo |-> 65492]

\* the colours of the tests: 1900500, and 24-bit colours with low, middle
\* and high bytes in every field
TestColors ==
    {Color1900500}
    \cup {[hi |-> h, lo |-> 256 * sat + l] :
            h \in {0, 28, 128, 255}, sat \in {0, 128, 255},
            l \in {0, 1, 2, 128, 211, 212, 254, 255}}

\* test_ddnet_color_1900500: the colour is unpacked and converted to RGB
TestDdnetColor ==
    /\ res = NoCall
    /\ \E color \in TestColors :
          res' = [op |-> "test_ddnet_color", color |-> color,
                  hsl |-> ddnet_color_to_hsl(color),
                  rgb |-> hsl_to_rgb(ddnet_color_to_hsl(color))]
    /\ UNCHANGED <<builder, with_calls, iter, workers, overflow_checks, img, tee, recolors>>

\* test_roundtrip: the colour is unpacked and packed back
TestRoundtrip ==
    /\ res = NoCall
    /\ \E color \in TestColors :
          res' = [op |-> "test_roundtrip", color |-> color,
                  hsl |-> ddnet_color_to_hsl(color),
                  packed_back |->
                      Let(ddnet_color_to_hsl(color),
                          LAMBDA t : hsl_to_ddnet_color(t[1], t[2], t[3]))]
    /\ UNCHANGED <<builder, with_calls, iter, workers, overflow_checks, img, tee, recolors>>

NextColor ==
    \/ DdnetColorToHsl
    \/ HslToRgb
    \/ ImgHslTransform
    \/ TestDdnetColor
    \/ TestRoundtrip

SpecColor == InitColor /\ [][NextColor]_vars

(***************************************************************************)
(* img_hsl_transform step by step: the workers of par_bridge take pixels   *)
(* from the shared iterator and run the closure on them.                   *)
(***************************************************************************)
\* the coordinates of the i-th pixel pixels_mut() yields: row by row
PixelAt(image, i) == <<(i - 1) % image.width, (i - 1) \div image.width>>

\* the number of pixels of a buffer
Pixels(image) == image.width * image.height

\* an iterator that yields its first pixel again and again
next_again(image, it) ==
    IF 0 < Pixels(image)
    THEN [some |-> TRUE, item |-> 1, iter |-> it]
    ELSE [some |-> FALSE, item |-> 0, iter |-> it]

\* Iterator::next of pixels_mut(), called under the lock of par_bridge: the
\* next pixel and the advanced iterator, or None at the end
next(image, it) ==
    IF it < Pixels(image)
    THEN [some |-> TRUE, item |-> it + 1, iter |-> it + 1]
    ELSE [some |-> FALSE, item |-> 0, iter |-> it]

\* one row of n pixels, the pixels of from in turn
Row(n, from) ==
    Image(n, IF n = 0 THEN 0 ELSE 1,
          [p \in Grid(n, IF n = 0 THEN 0 ELSE 1) |->
              from[(p[1] % Len(from)) + 1]])

\* the buffers of the parallel pass: rows of 0 .. MaxPixels pixels, and a
\* column of two
ParBuffers ==
    {Row(n, from) : n \in 0 .. MaxPixels,
                    from \in {<<(<<0, 1, 127, 255>>), (<<255, 254, 128, 0>>),
                                (<<200, 100, 50, 77>>)>>,
                              <<(<<255, 255, 255, 255>>)>>}}
    \cup {Image(1, 2, [p \in Grid(1, 2) |->
                         IF p[2] = 0 THEN <<200, 100, 50, 77>>
                         ELSE <<255, 254, 128, 0>>])}

\* the triples of the parallel pass: factors (1, 3/4, 1/2) and (1/4, 1/4, 3/4)
ParTriples == {<<F32Frac(1, 12), F32Frac(1, 1), F32Frac(3, 4)>>,
               <<F32Frac(2, 3), F32Frac(1, 2), F32Frac(1, 2)>>}

\* img_hsl_transform(&mut img, hsl) is entered: the factors are computed,
\* the iterator is at the start and every worker is about to ask for a pixel
CallImgHslTransform ==
    /\ res = NoCall
    /\ \E buffer \in ParBuffers, hsl \in ParTriples :
          /\ img' = buffer
          /\ res' = [op |-> "img_hsl_transform", hsl |-> hsl,
                     rgb |-> hsl_to_rgb(hsl), before |-> buffer,
                     reads |-> [i \in 1 .. Pixels(buffer) |-> <<>>],
                     writes |-> [i \in 1 .. Pixels(buffer) |-> <<>>],
                     returned |-> FALSE]
    /\ iter' = 0
    /\ workers' = [w \in Workers |-> Worker("next", 0, 0, 0)]
    /\ UNCHANGED <<builder, with_calls, overflow_checks, tee, recolors>>

\* a worker asks the shared iterator for its next pixel
TakePixel(w) ==
    /\ workers[w].pc = "next"
    /\ LET n == next(img, iter) IN
          /\ iter' = n.iter
          /\ workers' = [workers EXCEPT ![w] =
                            IF n.some THEN Worker("read", n.item, 1, 0)
                            ELSE Worker("done", 0, 0, 0)]
    /\ UNCHANGED <<builder, with_calls, overflow_checks, img, res, tee, recolors>>

\* the closure reads pixel[channel]
ReadChannel(w) ==
    /\ workers[w].pc = "read"
    /\ LET me == workers[w] IN
          /\ workers' = [workers EXCEPT ![w] =
                            Worker("write", me.pixel, me.channel,
                                   img.px[PixelAt(img, me.pixel)][me.channel])]
          /\ res' = [res EXCEPT !.reads[me.pixel] =
                                    Append(@, <<w, me.channel>>)]
    /\ UNCHANGED <<builder, with_calls, overflow_checks, img, tee, recolors, iter>>

\* the closure stores the recoloured value in pixel[channel] and goes on to
\* the next channel, or to the next pixel after the blue channel
WriteChannel(w) ==
    /\ workers[w].pc = "write"
    /\ LET me == workers[w] IN
          /\ img' = [img EXCEPT !.px[PixelAt(img, me.pixel)][me.channel] =
                                    Recolored(me.value, res.rgb[me.channel])]
          /\ workers' = [workers EXCEPT ![w] =
                            IF me.channel < 3
                            THEN Worker("read", me.pixel, me.channel + 1, 0)
                            ELSE Worker("next", 0, 0, 0)]
          /\ res' = [res EXCEPT !.writes[me.pixel] =
                                    Append(@, <<w, me.channel>>)]
    /\ UNCHANGED <<builder, with_calls, overflow_checks, tee, recolors, iter>>

\* for_each returns once every worker has found the iterator empty
ReturnImgHslTransform ==
    /\ res # NoCall
    /\ ~res.returned
    /\ \A w \in Workers : workers[w].pc = "done"
    /\ res' = [res EXCEPT !.returned = TRUE]
    /\ UNCHANGED <<builder, with_calls, overflow_checks, img, tee, recolors, iter, workers>>

NextParallel ==
    \/ CallImgHslTransform
    \/ \E w \in Workers : TakePixel(w) \/ ReadChannel(w) \/ WriteChannel(w)
    \/ ReturnImgHslTransform

SpecParallel == InitColor /\ [][NextParallel]_vars

(***************************************************************************)
(* Compositions onto destination layouts of every kind, each on a newly    *)
(* parsed Tee.                                                             *)
(***************************************************************************)
\* TEE_SKIN_LAYOUT
TEE_SKIN_LAYOUT ==
    Skin(<<(<<16, 0>>), (<<33, 50>>)>>, <<(<<24, 30>>), (<<1, 1>>)>>,
         <<(<<8, 30>>), (<<1, 1>>)>>, <<(<<39, 18>>), (<<4, 5>>)>>,
         <<(<<47, 18>>), (<<4, 5>>)>>, <<96, 64>>)

\* a destination layout with every slot at the same place and scale
Uniform(at, factor, container) ==
    Skin(<<at, factor>>, <<at, factor>>, <<at, factor>>, <<at, factor>>,
         <<at, factor>>, container)

\* destination layouts with slots left of, above and beyond the canvas,
\* with the scale factors 0, -1/2, 1/4 (every target side becomes 0), 3,
\* NaN and infinity, in every slot and in single slots, and an empty canvas
ExtremeSkins ==
    {Uniform(at, factor, <<3, 2>>) :
        at \in {<<-1, -2>>, <<5, 0>>},
        factor \in {<<0, 1>>, <<-1, 2>>, <<1, 4>>, <<3, 1>>, NaN, Infinity}}
    \cup {[Uniform(<<0, 0>>, One, <<2, 3>>) EXCEPT ![slot][2] = Infinity] :
            slot \in {"body", "feet", "feet_back", "first_eyes",
                      "second_eyes"}}
    \cup {Uniform(<<0, 0>>, One, <<0, 0>>)}

\* tee.compose(skin, eye_type, img_format) on the Tee just parsed
ComposeOnce ==
    /\ tee.ok
    /\ res.op = "new_with_uv"
    /\ \E skin \in Skins \cup ExtremeSkins, eye_type \in EyeType,
          img_format \in ImageFormats :
          res' = [op |-> "compose", skin |-> skin, eye_type |-> eye_type,
                  img_format |-> img_format,
                  ret |-> compose(tee, skin, eye_type, img_format)]
    /\ UNCHANGED <<builder, with_calls, iter, workers, overflow_checks, img, tee, recolors>>

NextCompose == NewWithUv \/ ComposeOnce

SpecCompose == Init /\ [][NextCompose]_vars

(***************************************************************************)
(* Sheets of the default size: Tee::new, and compositions of the parsed    *)
(* Tee onto the default and the other destination layouts.                 *)
(***************************************************************************)
\* the solid colour of the n-th region of a layout, in extraction order
RegionColor(n) == <<20 * n, 255 - 20 * n, n, 255>>

\* the first of the regions from the n-th on that holds the pixel p, or 0
RECURSIVE RegionAt(_, _, _)
RegionAt(regions, p, n) ==
    IF n > Len(regions) THEN 0
    ELSE IF /\ p[1] - regions[n].x.lo \in 0 .. regions[n].w.lo - 1
            /\ p[2] - regions[n].y.lo \in 0 .. regions[n].h.lo - 1
    THEN n
    ELSE RegionAt(regions, p, n + 1)

\* a fully opaque sheet with a solid colour in each region of the layout
RegionSheet(uv) ==
    Let(RegionsOf(uv),
        LAMBDA regions :
            Image(uv.container[1].lo, uv.container[2].lo,
                  [p \in Grid(uv.container[1].lo, uv.container[2].lo) |->
                      RegionColor(RegionAt(regions, p, 1))]))

\* the bytes handed to Tee::new: undecodable; sheets of the default size,
\* one with a colour per region and two with a colour per position; and
\* sheets of other sizes
DefaultDatas ==
    {[decodable |-> FALSE, image |-> NoImage]}
    \cup {[decodable |-> TRUE, image |-> sheet] :
            sheet \in {RegionSheet(TEE_UV_LAYOUT),
                       Sheet(256, 128, "opaque"), Sheet(256, 128, "mixed"),
                       Sheet(255, 128, "opaque"), Sheet(256, 127, "opaque"),
                       Sheet(128, 256, "opaque"),
                       Sheet(MaxDim, MaxDim, "opaque")}}

\* let tee = Tee::new(data, format): of the sheet its size is kept
New ==
    /\ res = NoCall
    /\ \E data \in DefaultDatas :
       \E ret \in {new(data, "Png", overflow_checks)} :
          /\ res' = [op |-> "new", decodable |-> data.decodable,
                     size |-> <<data.image.width, data.image.height>>,
                     kind |-> ret.kind, err |-> ret.err,
                     stages |-> ret.stages]
          /\ tee' = ret.tee
    /\ UNCHANGED <<builder, with_calls, iter, workers, overflow_checks, img,
                   recolors>>

\* tee.compose(skin, eye_type, img_format) on the Tee of Tee::new: of each
\* call of the closure the layer, the slot and the target size are kept
ComposeDefault ==
    /\ tee.ok
    /\ res.op = "new"
    /\ \E args \in ComposeArgs
                    \cup {<<TEE_SKIN_LAYOUT, eye_type, "Png">> :
                            eye_type \in EyeType} :
       \E ret \in {compose(tee, args[1], args[2], args[3])} :
          res' = [op |-> "compose", skin |-> args[1], eye_type |-> args[2],
                  img_format |-> args[3], kind |-> ret.kind,
                  canvas |-> ret.canvas,
                  draws |-> [k \in 1 .. Len(ret.draws) |->
                               [layer |-> ret.draws[k].layer,
                                slot |-> ret.draws[k].slot,
                                target |-> ret.draws[k].target]]]
    /\ UNCHANGED <<builder, with_calls, iter, workers, overflow_checks, img,
                   tee, recolors>>

NextDefault == New \/ ComposeDefault

SpecDefault == Init /\ [][NextDefault]_vars

(***************************************************************************)
(* Builders: any sequence of with_ calls on TeeBuilder::new(), and then    *)
(* build.                                                                  *)
(***************************************************************************)
\* the bytes given to with_data and served at the URLs
BuilderDatas ==
    {[decodable |-> FALSE, image |-> NoImage],
     [decodable |-> TRUE, image |-> Sheet(MaxDim, 2, "opaque")]}

BuilderFormats == {"Png", "Jpeg"}

Urls == {"https://a/skin.png", "https://b/skin"}

\* layouts for the sheet of BuilderDatas: one that fits, one with a region
\* beyond the right edge and one with a region whose x + w overflows
BuilderLayouts == {Layout(MaxDim, 2, "unit", 3, a, 0, 0) : a \in {0, 1, 3}}

\* what the server at a URL does: the request fails; or it answers, with a
\* Content-Type header or none, and its body can be read or not
NoResponse ==
    [sent |-> FALSE, content_type |-> None, body_read |-> FALSE,
     bytes |-> [decodable |-> FALSE, image |-> NoImage]]

ContentTypes == {None, Some("image/png"), Some("text/html"), Some("\\xff")}

Responses ==
    {NoResponse}
    \cup {[NoResponse EXCEPT !.sent = TRUE, !.content_type = header] :
            header \in ContentTypes}
    \cup {[sent |-> TRUE, content_type |-> header, body_read |-> TRUE,
           bytes |-> data] :
            header \in ContentTypes, data \in BuilderDatas}

\* TeeBuilder::new(), in a build with or without the feature net
InitBuilder ==
    /\ overflow_checks \in BOOLEAN
    /\ img = NoImage
    /\ res = NoCall
    /\ tee = NoTee
    /\ recolors = 0
    /\ iter = 0
    /\ workers = NoWorkers
    /\ builder \in {TeeBuilder(net) : net \in BOOLEAN}
    /\ with_calls = <<>>

\* builder = builder.with_data(data, format)
WithData ==
    /\ builder # NoBuilder
    /\ Len(with_calls) < MaxCalls
    /\ \E data \in BuilderDatas, format \in BuilderFormats :
          /\ builder' = with_data(builder, data, format)
          /\ with_calls' = Append(with_calls,
                                  [op |-> "with_data", data |-> data,
                                   format |-> format])
    /\ UNCHANGED <<iter, workers, overflow_checks, img, res, tee, recolors>>

\* builder = builder.with_url(url), which exists with the feature net
WithUrl ==
    /\ builder # NoBuilder
    /\ "url" \in DOMAIN builder
    /\ Len(with_calls) < MaxCalls
    /\ \E url \in Urls :
          /\ builder' = with_url(builder, url)
          /\ with_calls' = Append(with_calls,
                                  [op |-> "with_url", url |-> url])
    /\ UNCHANGED <<iter, workers, overflow_checks, img, res, tee, recolors>>

\* builder = builder.with_uv(uv)
WithUv ==
    /\ builder # NoBuilder
    /\ Len(with_calls) < MaxCalls
    /\ \E uv \in BuilderLayouts :
          /\ builder' = with_uv(builder, uv)
          /\ with_calls' = Append(with_calls, [op |-> "with_uv", uv |-> uv])
    /\ UNCHANGED <<iter, workers, overflow_checks, img, res, tee, recolors>>

\* builder.build(): the builder is consumed; response is recorded when a
\* request was sent
Build ==
    /\ builder # NoBuilder
    /\ \E response \in Responses :
       \E built \in {build(builder, response, overflow_checks)} :
          /\ built.url.some \/ response = NoResponse
          /\ res' = [op |-> "build", builder |-> builder,
                     response |-> response, built |-> built]
          /\ tee' = built.ret.tee
    /\ builder' = NoBuilder
    /\ UNCHANGED <<with_calls, iter, workers, overflow_checks, img, recolors>>

NextBuilder == WithData \/ WithUrl \/ WithUv \/ Build

SpecBuilder == InitBuilder /\ [][NextBuilder]_vars

(***************************************************************************)
(* Properties of the extraction functions                                  *)
(***************************************************************************)
\* the rectangle lies inside a width x height image, over the mathematical
\* integers (width and height are below 2^16 here)
Fits(part, width, height) ==
    /\ part.x.hi = 0 /\ part.w.hi = 0 /\ part.x.lo + part.w.lo <= width
    /\ part.y.hi = 0 /\ part.h.hi = 0 /\ part.y.lo + part.h.lo <= height

\* x + w is exactly n
XEnd(part, n) == part.x.hi = 0 /\ part.w.hi = 0 /\ part.x.lo + part.w.lo = n

\* C1: extract_part succeeds exactly when x + w <= width and y + h <= height;
\* on success the returned buffer is w x h; x + w = width + 1 gives
\* OutOfBounds.
C1_ExtractIffFits ==
    res.op = "extract_part" =>
        LET part == res.parts[1] IN
        /\ (res.ret.kind = "Ok") <=> Fits(part, img.width, img.height)
        /\ res.ret.kind = "Ok" =>
              /\ res.ret.img.width = part.w.lo
              /\ res.ret.img.height = part.h.lo
              /\ DOMAIN res.ret.img.px = Grid(part.w.lo, part.h.lo)
        /\ XEnd(part, img.width + 1) => res.ret.kind = "OutOfBounds"

\* a rectangle that ends exactly at the right edge was extracted
C1_Witness ==
    /\ res.op = "extract_part"
    /\ res.ret.kind = "Ok"
    /\ res.parts[1].w.lo > 0 /\ res.parts[1].h.lo > 0
    /\ XEnd(res.parts[1], img.width)

\* C2: extract_part never panics; whenever x + w > width or y + h > height
\* over the mathematical integers it returns OutOfBounds, also when the
\* 32-bit sum overflows.
C2_NeverPanics ==
    res.op = "extract_part" =>
        /\ res.ret.kind # "Panic"
        /\ ~Fits(res.parts[1], img.width, img.height) =>
              res.ret.kind = "OutOfBounds"

\* the lowest index of a rectangle of parts that does not fit, 0 if all fit
FirstBad(parts) ==
    IF \A k \in 1 .. Len(parts) : Fits(parts[k], img.width, img.height)
    THEN 0
    ELSE CHOOSE k \in 1 .. Len(parts) :
           /\ ~Fits(parts[k], img.width, img.height)
           /\ \A m \in 1 .. k - 1 : Fits(parts[m], img.width, img.height)

\* the call returned the OutOfBounds of the first rectangle that does not
\* fit and extracted nothing after it; with all fitting it succeeded
FirstFailureReported(parts, ret) ==
    LET bad == FirstBad(parts) IN
    IF bad = 0
    THEN ret.kind = "Ok" /\ ret.calls = parts
    ELSE /\ ret.kind = "OutOfBounds"
         /\ ret.err.part = parts[bad]
         /\ ret.calls = SubSeq(parts, 1, bad)

\* C5: extract_all_eyes tries the six regions in the order Normal .. Surprise
\* and fails with the OutOfBounds of the lowest-index region that is out of
\* bounds, extracting none after it.
C5_EyesFirstFailure ==
    res.op = "extract_all_eyes" => FirstFailureReported(res.parts, res.ret)

\* C6: extract_with_shadow returns a WithShadow only when both rectangles
\* fit; otherwise it fails with the OutOfBounds of the rectangle that does
\* not fit, the value part when both do not.
C6_ShadowFirstFailure ==
    res.op = "extract_with_shadow" =>
        /\ FirstFailureReported(res.parts, res.ret)
        /\ res.ret.kind # "Ok" => res.ret.value = NoWithShadow

\* C7: the OutOfBounds error of extract_part carries the requested rectangle
\* unchanged and the width and height of the image it was applied to.
C7_OutOfBoundsPayload ==
    (res.op = "extract_part" /\ res.ret.kind = "OutOfBounds") =>
        /\ res.ret.err.part = res.parts[1]
        /\ res.ret.err.width = img.width
        /\ res.ret.err.height = img.height

\* an OutOfBounds error on an image that is not square
C7_Witness ==
    /\ res.op = "extract_part"
    /\ res.ret.kind = "OutOfBounds"
    /\ img.width # img.height
    /\ res.ret.err.width = img.width
    /\ res.ret.err.part.x.lo > 0

\* with rectangles whose sums fit 32 bits, the order of the failures is the
\* order of the extractions
NoOverflow(parts) ==
    \A k \in 1 .. Len(parts) :
        Sum(parts[k].x, parts[k].w).carry = 0
        /\ Sum(parts[k].y, parts[k].h).carry = 0

FirstFailureWithoutOverflow ==
    (res.op \in {"extract_all_eyes", "extract_with_shadow"}
     /\ NoOverflow(res.parts)) => FirstFailureReported(res.parts, res.ret)

(***************************************************************************)
(* Properties of Tee construction                                          *)
(***************************************************************************)
\* C3: parsing a decoded sheet whose size differs from layout.container
\* fails with InvalidDimensions{expected: container, found: size}, whether
\* or not the regions would fit, and before any region is extracted.
C3_WrongSizeIsInvalidDimensions ==
    (res.op = "new_with_uv" /\ res.decodable
     /\ dimensions(img) # res.uv.container) =>
        /\ res.ret.kind = "InvalidDimensions"
        /\ res.ret.err.expected = res.uv.container
        /\ res.ret.err.found = <<U32(img.width), U32(img.height)>>
        /\ res.ret.calls = <<>>
        /\ tee = NoTee

\* a sheet of the wrong size with a layout of which a region does not fit it
C3_Witness ==
    /\ res.op = "new_with_uv" /\ res.decodable
    /\ dimensions(img) # res.uv.container
    /\ res.ret.kind = "InvalidDimensions"
    /\ FirstBad(RegionsOf(res.uv)) > 2

\* the Tee holds the extraction of each region of uv from the image
CompleteTee(t, uv) ==
    /\ t.ok
    /\ t.body = WithShadow(view(img, uv.body), view(img, uv.body_shadow))
    /\ t.feet = WithShadow(view(img, uv.feet), view(img, uv.feet_shadow))
    /\ t.hand = WithShadow(view(img, uv.hand), view(img, uv.hand_shadow))
    /\ \A k \in 0 .. 5 : t.eye[k].img = view(img, uv.eyes[k])
    /\ t.used_uv = uv

\* C4: parsing returns a complete Tee or an error and no Tee; with regions
\* out of bounds the error is the OutOfBounds of the first of them in the
\* order body, body_shadow, feet, feet_shadow, hand, hand_shadow, eyes, and
\* nothing after it is extracted.
C4_FirstFailingRegion ==
    (res.op = "new_with_uv" /\ res.decodable
     /\ dimensions(img) = res.uv.container) =>
        /\ FirstFailureReported(RegionsOf(res.uv), res.ret)
        /\ res.ret.kind = "Ok" => CompleteTee(res.ret.tee, res.uv)
        /\ res.ret.kind # "Ok" => res.ret.tee = NoTee
        /\ tee = res.ret.tee

\* the same for layouts whose rectangles do not overflow 32 bits
ParseFirstFailureWithoutOverflow ==
    (res.op = "new_with_uv" /\ res.decodable
     /\ dimensions(img) = res.uv.container
     /\ NoOverflow(RegionsOf(res.uv))) =>
        /\ FirstFailureReported(RegionsOf(res.uv), res.ret)
        /\ res.ret.kind = "Ok" => CompleteTee(res.ret.tee, res.uv)
        /\ res.ret.kind # "Ok" => res.ret.tee = NoTee
        /\ tee = res.ret.tee

(***************************************************************************)
(* Properties of the eyes                                                  *)
(***************************************************************************)
\* the ordinals of the eye states
Ordinal ==
    [type \in EyeType |->
        CASE type = "Normal" -> 0 [] type = "Angry" -> 1 [] type = "Pain" -> 2
          [] type = "Happy" -> 3 [] type = "Empty" -> 4
          [] type = "Surprise" -> 5]

\* C8: on every parsed Tee, after any sequence of apply_hsl_to_parts,
\* apply_hsl_to_all, compose, get_all_parts and get_all_eyes, the eye at
\* index i carries the variant of ordinal i, and get_eye reaches its
\* unreachable branch for none of the six states.
C8_GetEyeTotal ==
    /\ tee.ok =>
          /\ \A i \in 0 .. 5 :
                tee.eye[i].tag \in EyeType /\ Ordinal[tee.eye[i].tag] = i
          /\ \A type \in EyeType : get_eye(tee, type).kind = "Ok"
    /\ res.op \in {"get_eye", "get_all_eyes", "compose"} =>
          res.ret.kind # "Panic"

\* get_eye(Surprise) returned on a Tee that has been recoloured
C8_Witness ==
    /\ res.op = "get_eye" /\ res.type = "Surprise"
    /\ res.ret.kind = "Ok"
    /\ recolors > 0

\* image is the crop of rectangle part of the source image
IsRegion(image, part) ==
    /\ image.width = part.w.lo /\ image.height = part.h.lo
    /\ DOMAIN image.px = Grid(part.w.lo, part.h.lo)
    /\ \A p \in Grid(part.w.lo, part.h.lo) :
          image.px[p] = img.px[<<part.x.lo + p[1], part.y.lo + p[2]>>]

\* C9: on a Tee parsed with layout L, get_eye(s) is the buffer extracted
\* from region L.eyes[ordinal(s)]: its pixel (i, j) is the sheet's pixel
\* (x + i, y + j); no two states read the same region index.
C9_EyeIsItsRegion ==
    /\ (res.op = "new_with_uv" /\ res.ret.kind = "Ok") =>
          \A s \in EyeType :
              /\ get_eye(tee, s).idx = Ordinal[s]
              /\ IsRegion(get_eye(tee, s).img, res.uv.eyes[Ordinal[s]])
    /\ res.op = "get_eye" =>
          /\ res.ret.idx = Ordinal[res.type]
          /\ IsRegion(res.ret.img, tee.used_uv.eyes[Ordinal[res.type]])
    /\ tee.ok =>
          \A s \in EyeType, t \in EyeType :
              get_eye(tee, s).idx = get_eye(tee, t).idx => s = t

\* get_eye(Happy) returned a buffer that differs from the first eye's
C9_Witness ==
    /\ res.op = "get_eye" /\ res.type = "Happy"
    /\ res.ret.img.width > 0 /\ res.ret.img.height > 0
    /\ res.ret.img # tee.eye[0].img
    /\ res.ret.img # tee.eye[5].img

(***************************************************************************)
(* Properties of the composition                                           *)
(***************************************************************************)
\* the eight draws of a composition: buffer and slot
DrawOrder ==
    <<(<<"body.shadow", "body">>), (<<"feet.shadow", "feet_back">>),
      (<<"feet.shadow", "feet">>), (<<"feet.value", "feet_back">>),
      (<<"body.value", "body">>), (<<"eye", "first_eyes">>),
      (<<"eye.flipped", "second_eyes">>), (<<"feet.value", "feet">>)>>

SlotOf(skin, slot) ==
    CASE slot = "body" -> skin.body
      [] slot = "feet" -> skin.feet
      [] slot = "feet_back" -> skin.feet_back
      [] slot = "first_eyes" -> skin.first_eyes
      [] slot = "second_eyes" -> skin.second_eyes

\* draw d puts an opaque pixel on canvas position p
Opaque(d, p) ==
    /\ p[1] - d.at[1] \in 0 .. d.image.width - 1
    /\ p[2] - d.at[2] \in 0 .. d.image.height - 1
    /\ d.image.px[<<p[1] - d.at[1], p[2] - d.at[2]>>][4] = 255

\* the draws that put an opaque pixel on p
OpaqueAt(ds, p) == {k \in 1 .. Len(ds) : Opaque(ds[k], p)}

Last(K) == CHOOSE k \in K : \A m \in K : m <= k

\* C10: compose performs exactly the eight draws of DrawOrder, in that
\* order, whatever the eye state and the layouts; where several opaque
\* layers cover a pixel the latest of them is the visible one.
C10_DrawOrder ==
    res.op = "compose" =>
        LET ds == res.ret.draws IN
        /\ Len(ds) = 8
        /\ \A k \in 1 .. 8 :
              /\ <<ds[k].layer, ds[k].slot>> = DrawOrder[k]
              /\ ds[k].at = SlotOf(res.skin, ds[k].slot)[1]
        /\ res.ret.canvas.width = res.skin.container[1]
        /\ res.ret.canvas.height = res.skin.container[2]
        /\ \A p \in Grid(res.skin.container[1], res.skin.container[2]) :
              OpaqueAt(ds, p) # {} =>
                  LET d == ds[Last(OpaqueAt(ds, p))] IN
                  res.ret.canvas.px[p] =
                      d.image.px[<<p[1] - d.at[1], p[2] - d.at[2]>>]

\* a composition with another eye than Normal in which a pixel is covered
\* by the opaque body, an opaque eye and the opaque front feet, in
\* different colours
C10_Witness ==
    /\ res.op = "compose" /\ res.eye_type = "Pain"
    /\ \E p \in Grid(res.skin.container[1], res.skin.container[2]) :
          /\ {5, 6, 8} \subseteq OpaqueAt(res.ret.draws, p)
          /\ \E k \in {5, 6} :
                LET d == res.ret.draws[k] IN
                d.image.px[<<p[1] - d.at[1], p[2] - d.at[2]>>]
                    # res.ret.canvas.px[p]

\* the source-layout region the buffer of the k-th draw was extracted from
SourceRegion(t, k, eye_type) ==
    CASE k = 1 -> t.used_uv.body_shadow
      [] k \in {2, 3} -> t.used_uv.feet_shadow
      [] k \in {4, 8} -> t.used_uv.feet
      [] k = 5 -> t.used_uv.body
      [] k \in {6, 7} -> t.used_uv.eyes[Ordinal[eye_type]]

\* the size the k-th draw should resize to: its region's size times the
\* scale factor of its slot, truncated
TargetSize(t, skin, k, eye_type) ==
    LET region == SourceRegion(t, k, eye_type) IN
    scale(<<region.w.lo, region.h.lo>>, SlotOf(skin, DrawOrder[k][2])[2])

\* C11: each of the eight draws of compose resizes its sub-image to
\* (trunc(w * scale), trunc(h * scale)) for the slot's scale and the size
\* (w, h) of the region the sub-image was extracted from; for the two eye
\* draws that is the region of the selected eye state.
C11_TargetSizes ==
    res.op = "compose" =>
        \A k \in 1 .. Len(res.ret.draws) :
            res.ret.draws[k].target
                = TargetSize(tee, res.skin, k, res.eye_type)

\* the same for the six draws that are not eyes, and for the eye draws when
\* the selected eye's region has the size of the first eye region
TargetSizesButForOtherEyes ==
    res.op = "compose" =>
        \A k \in 1 .. Len(res.ret.draws) :
            LET region == SourceRegion(tee, k, res.eye_type)
                first == tee.used_uv.eyes[0]
            IN  (k \in {6, 7} => <<region.w, region.h>> = <<first.w, first.h>>)
                => /\ res.ret.draws[k].target
                        = TargetSize(tee, res.skin, k, res.eye_type)
                   /\ <<U32(res.ret.draws[k].image.width),
                        U32(res.ret.draws[k].image.height)>>
                        = res.ret.draws[k].target

\* image b is the horizontal mirror of image a
Mirror(a, b) ==
    /\ b.width = a.width /\ b.height = a.height
    /\ DOMAIN b.px = Grid(a.width, a.height)
    /\ \A p \in Grid(a.width, a.height) :
          b.px[p] = a.px[<<a.width - 1 - p[1], p[2]>>]

\* the eye draws of a composition hand over the selected eye's buffer and
\* its horizontal mirror
EyeDrawsMirrored ==
    /\ res.ret.draws[6].handed = get_eye(tee, res.eye_type).img
    /\ Mirror(res.ret.draws[6].handed, res.ret.draws[7].handed)

SameTargetSize ==
    <<res.ret.draws[7].image.width, res.ret.draws[7].image.height>>
        = <<res.ret.draws[6].image.width, res.ret.draws[6].image.height>>

\* C12 as stated: for every eye state the image handed to the second_eyes
\* draw is the horizontal mirror of the one handed to the first_eyes draw,
\* both come from get_eye(eye_state), and both are resized to the same
\* target size.
C12_MirroredEye ==
    res.op = "compose" => EyeDrawsMirrored /\ SameTargetSize

\* C12 amended: the mirror and the common buffer hold for every destination
\* layout; the two target sizes are equal when the first_eyes and
\* second_eyes slots carry the same scale factor.
C12_MirroredEyeOfEqualScales ==
    res.op = "compose" =>
        /\ EyeDrawsMirrored
        /\ res.skin.first_eyes[2] = res.skin.second_eyes[2] => SameTargetSize

\* a composition with equal eye scales whose eye is not symmetric: the
\* mirror differs from the eye itself
C12_Witness ==
    /\ res.op = "compose" /\ res.eye_type = "Angry"
    /\ res.skin.first_eyes[2] = res.skin.second_eyes[2]
    /\ res.ret.draws[6].handed.width > 1
    /\ res.ret.draws[7].handed # res.ret.draws[6].handed
    /\ res.ret.draws[7].image.width > 0

\* the canvas of a composition of Tee t drawn from nothing but t, the
\* destination layout and the eye state
FreshCanvas(t, skin, eye_type) ==
    DrawFrom(Blank(skin.container[1], skin.container[2]),
             Calls(compose_layers(t, skin, eye_type).layers), 1)

C14_ComposeNeverFails ==
    res.op = "compose" => res.ret.kind \in {"Ok", "Image"}

\* a destination layout whose scale factors are all finite or NaN
Finite(skin) ==
    \A slot \in {"body", "feet", "feet_back", "first_eyes", "second_eyes"} :
        skin[slot][2] # Infinity

\* without an infinite scale factor compose returns, and all eight calls
\* of the closure are made
ComposeReturnsOfFiniteScales ==
    (res.op = "compose" /\ Finite(res.skin)) =>
        /\ res.ret.kind \in {"Ok", "Image"}
        /\ Len(res.ret.draws) = 8

\* the target sizes of the default source layout on the default
\* destination layout: 63 x 63 for the body, 64 x 32 for the feet and
\* 25 x 25 for the eyes, each of which resize returns
DefaultTargetsReturn ==
    LET body == scale(<<96, 96>>, TEE_SKIN_LAYOUT.body[2])
        feet == scale(<<64, 32>>, TEE_SKIN_LAYOUT.feet[2])
        feet_back == scale(<<64, 32>>, TEE_SKIN_LAYOUT.feet_back[2])
        first == scale(<<32, 32>>, TEE_SKIN_LAYOUT.first_eyes[2])
        second == scale(<<32, 32>>, TEE_SKIN_LAYOUT.second_eyes[2])
    IN  /\ body = <<U32(63), U32(63)>>
        /\ feet = <<U32(64), U32(32)>> /\ feet_back = feet
        /\ first = <<U32(25), U32(25)>> /\ second = first
        /\ \A size \in {body, feet, feet_back, first, second} :
              ResizeKind(size) = "Ok"
        /\ \A k \in 0 .. 5 :
              /\ TEE_UV_LAYOUT.eyes[k].w = U32(32)
              /\ SumLeq(TEE_UV_LAYOUT.eyes[k].x, TEE_UV_LAYOUT.eyes[k].w,
                        TEE_UV_LAYOUT.container[1])

(***************************************************************************)
(* Properties of the colour functions                                      *)
(***************************************************************************)
\* trunc(clamp(channel / 255 * factor, 0, 1) * 255)
ChannelOf(channel, factor) ==
    F32Floor(F32Mul(F32Clamp(F32Mul(F32Frac(channel, 255), factor),
                             F32Zero, F32One),
                    F32Byte))

\* C15: after img_hsl_transform(buffer, hsl) the buffer has its dimensions,
\* every pixel has its alpha, and each of R, G, B is
\* trunc(clamp(channel / 255 * factor, 0, 1) * 255) for the factor of
\* hsl_to_rgb(hsl); pixels that were equal are equal afterwards.
C15_RecolorPerChannel ==
    res.op = "img_hsl_transform" =>
        LET rgb == hsl_to_rgb(res.hsl) IN
        /\ res.ret.width = img.width /\ res.ret.height = img.height
        /\ DOMAIN res.ret.px = DOMAIN img.px
        /\ \A p \in DOMAIN img.px :
              /\ res.ret.px[p][4] = img.px[p][4]
              /\ \A k \in 1 .. 3 :
                    res.ret.px[p][k] = ChannelOf(img.px[p][k], rgb[k])
        /\ \A p \in DOMAIN img.px, q \in DOMAIN img.px :
              img.px[p] = img.px[q] => res.ret.px[p] = res.ret.px[q]

\* a buffer of two different pixels recoloured with factors that change
\* both and leave a channel strictly between 0 and 255
C15_Witness ==
    /\ res.op = "img_hsl_transform"
    /\ img.width = 2
    /\ img.px[<<0, 0>>] # img.px[<<1, 0>>]
    /\ res.ret.px[<<0, 0>>] # img.px[<<0, 0>>]
    /\ res.ret.px[<<1, 0>>] # img.px[<<1, 0>>]
    /\ res.ret.px[<<0, 0>>][4] = 77
    /\ res.ret.px[<<0, 0>>][1] \in 1 .. 199

(***************************************************************************)
(* Properties of the recolouring of named parts                            *)
(***************************************************************************)
\* the part names a slice holds
Named(parts) == {parts[i] : i \in DOMAIN parts}

\* the buffer of a named part transformed once, any other buffer as it was
Once(image, hsl, named) ==
    IF named THEN img_hsl_transform(image, hsl) ELSE image

\* the Tee whose named sub-buffers are each transformed exactly once
RecoloredOnce(t, hsl, names) ==
    [t EXCEPT !.body.value = Once(@, hsl, "Body" \in names),
              !.body.shadow = Once(@, hsl, "BodyShadow" \in names),
              !.feet.value = Once(@, hsl, "Feet" \in names),
              !.feet.shadow = Once(@, hsl, "FeetShadow" \in names),
              !.hand.value = Once(@, hsl, "Hand" \in names),
              !.hand.shadow = Once(@, hsl, "HandShadow" \in names)]

\* a step that is one call apply_hsl_to_parts(res'.hsl, res'.parts)
RecolorsParts ==
    /\ recolors' = recolors + 1
    /\ res'.op = "apply_hsl_to_parts"

\* the slice in the opposite order
Reversed(parts) == [i \in DOMAIN parts |-> parts[Len(parts) + 1 - i]]

\* C16: one call apply_hsl_to_parts(hsl, parts) transforms exactly the
\* sub-buffers named in parts, each exactly once, also when the slice names
\* a part more than once, and the order of the names does not matter
C16_EachNamedPartOnce ==
    [][RecolorsParts =>
         /\ tee' = RecoloredOnce(tee, res'.hsl, Named(res'.parts))
         /\ tee' = apply_hsl_to_parts(tee, res'.hsl, Reversed(res'.parts))]_vars

\* a slice of distinct names transforms exactly the named sub-buffers once
DistinctNamesOnce ==
    [][RecolorsParts /\ Cardinality(Named(res'.parts)) = Len(res'.parts) =>
         tee' = RecoloredOnce(tee, res'.hsl, Named(res'.parts))]_vars

\* the sub-buffer a part name stands for
PartOf(t, part) ==
    CASE part = "Body" -> t.body.value
      [] part = "BodyShadow" -> t.body.shadow
      [] part = "Feet" -> t.feet.value
      [] part = "FeetShadow" -> t.feet.shadow
      [] part = "Hand" -> t.hand.value
      [] part = "HandShadow" -> t.hand.shadow

\* whatever the slice: the order of the names does not matter, no sub-buffer
\* that is not named changes, and the eyes do not change
OrderAndUnnamedParts ==
    [][RecolorsParts =>
         /\ tee' = apply_hsl_to_parts(tee, res'.hsl, Reversed(res'.parts))
         /\ \A part \in TeePart \ Named(res'.parts) :
               PartOf(tee', part) = PartOf(tee, part)
         /\ tee'.eye = tee.eye]_vars

(***************************************************************************)
(* Properties of the parallel pass                                         *)
(***************************************************************************)
\* the accesses one worker makes to one pixel: r, g and b in turn, once
AccessesOf(w) == <<(<<w, 1>>), (<<w, 2>>), (<<w, 3>>)>>

\* s is the beginning of t
IsPrefix(s, t) == Len(s) <= Len(t) /\ s = SubSeq(t, 1, Len(s))

\* the workers that read or wrote the i-th pixel
Visitors(i) ==
    {res.reads[i][k][1] : k \in DOMAIN res.reads[i]}
    \cup {res.writes[i][k][1] : k \in DOMAIN res.writes[i]}

\* the pass of one thread over the pixels from the i-th on, left to right
RECURSIVE SequentialPass(_, _, _)
SequentialPass(image, rgb, i) ==
    IF i > Pixels(image) THEN image
    ELSE LET at == PixelAt(image, i)
             old == image.px[at]
         IN  SequentialPass(
                 [image EXCEPT !.px[at] = <<Recolored(old[1], rgb[1]),
                                            Recolored(old[2], rgb[2]),
                                            Recolored(old[3], rgb[3]),
                                            old[4]>>],
                 rgb, i + 1)

\* a parallel pass has been entered
InPass == res # NoCall /\ res.op = "img_hsl_transform"

\* C17: in every interleaving of the workers each pixel is read and written
\* by one worker only, each channel once; no two workers hold the same
\* pixel; and when the call has returned every pixel has been processed and
\* the buffer is what the sequential left-to-right pass gives
C17_ParallelPass ==
    InPass =>
        /\ \A i \in DOMAIN res.reads :
              /\ Cardinality(Visitors(i)) <= 1
              /\ \A w \in Visitors(i) :
                    /\ IsPrefix(res.reads[i], AccessesOf(w))
                    /\ IsPrefix(res.writes[i], AccessesOf(w))
        /\ \A v, w \in Workers :
              v # w /\ workers[v].pixel # 0 =>
                  workers[v].pixel # workers[w].pixel
        /\ res.returned =>
              /\ \A i \in DOMAIN res.reads :
                    \E w \in Workers : /\ res.reads[i] = AccessesOf(w)
                                       /\ res.writes[i] = AccessesOf(w)
              /\ img = SequentialPass(res.before, res.rgb, 1)
              /\ img = img_hsl_transform(res.before, res.hsl)

\* the call has returned from a pass in which two workers each processed a
\* pixel and the buffer changed
C17_Witness ==
    /\ InPass
    /\ res.returned
    /\ \E i, j \in DOMAIN res.reads : Visitors(i) # Visitors(j)
    /\ img # res.before

\* byte k of a u32, counted from the low end
ByteOf(color, k) ==
    CASE k = 0 -> color.lo % 256
      [] k = 1 -> (color.lo \div 256) % 256
      [] k = 2 -> color.hi % 256
      [] k = 3 -> (color.hi \div 256) % 256

\* the u32 with the top byte cleared
Low24(color) == [hi |-> color.hi % 256, lo |-> color.lo]

\* a is in [lo, hi]
Within(a, lo, hi) == F32Leq(lo, a) /\ F32Leq(a, hi)

\* C18: ddnet_color_to_hsl depends only on the low 24 bits of its input and
\* returns h = byte 2 / 255, s = byte 1 / 255, l = 0.5 + byte 0 / 255 * 0.5;
\* h and s are in [0, 1], l is in [0.5, 1], l is 0.5 for low byte 0 and 1
\* for low byte 255
C18_PackedToHsl ==
    res.op = "ddnet_color_to_hsl" =>
        LET color == res.color
            h == res.ret[1]
            s == res.ret[2]
            l == res.ret[3]
        IN  /\ res.ret = ddnet_color_to_hsl(Low24(color))
            /\ h = F32Frac(ByteOf(color, 2), 255)
            /\ s = F32Frac(ByteOf(color, 1), 255)
            /\ l = F32Add(F32Frac(1, 2),
                          F32Mul(F32Frac(ByteOf(color, 0), 255),
                                 F32Frac(1, 2)))
            /\ Within(h, F32Zero, F32One)
            /\ Within(s, F32Zero, F32One)
            /\ Within(l, F32Frac(1, 2), F32One)
            /\ l = F32Frac(1, 2) <=> ByteOf(color, 0) = 0
            /\ l = F32One <=> ByteOf(color, 0) = 255

\* a colour with bits set in its top byte and low byte 255 was converted
C18_Witness ==
    /\ res.op = "ddnet_color_to_hsl"
    /\ ByteOf(res.color, 3) = 165
    /\ ByteOf(res.color, 2) = 128
    /\ ByteOf(res.color, 0) = 255
    /\ res.ret[3] = F32One

\* the table of channel mappings by sector, sectors 0 .. 5
SectorTable(c, x) ==
    <<(<<c, x, F32Zero>>), (<<x, c, F32Zero>>), (<<F32Zero, c, x>>),
      (<<F32Zero, x, c>>), (<<x, F32Zero, c>>), (<<c, F32Zero, x>>)>>

\* the smaller of two integers
Min(a, b) == IF a < b THEN a ELSE b

\* C19: hsl_to_rgb picks the channel mapping by the sector floor(h * 6):
\* (c, x, 0), (x, c, 0), (0, c, x), (0, x, c), (x, 0, c) for the sectors 0 to
\* 4 and (c, 0, x) for every sector from 5 on; c = (1 - |2l - 1|) * s,
\* x = c * (1 - |(h * 6 mod 2) - 1|) and m = l - c / 2 is added to every
\* channel; the result for h = 1 is the result for h = 0
C19_SectorMapping ==
    res.op = "hsl_to_rgb" /\ F32Leq(F32Zero, res.hsl[1]) =>
        LET h == res.hsl[1]
            s == res.hsl[2]
            l == res.hsl[3]
            h6 == F32Mul(h, F32Six)
            sector == F32Floor(h6)
            c == F32Mul(F32Sub(F32One, F32Abs(F32Sub(F32Add(l, l), F32One))),
                        s)
            h6mod2 == F32Sub(h6, F32Of(2 * (sector \div 2)))
            x == F32Mul(c, F32Sub(F32One, F32Abs(F32Sub(h6mod2, F32One))))
            m == F32Sub(l, F32Mul(c, F32Frac(1, 2)))
            mapped == SectorTable(c, x)[Min(sector, 5) + 1]
        IN  /\ res.ret = <<F32Add(mapped[1], m), F32Add(mapped[2], m),
                           F32Add(mapped[3], m)>>
            /\ h = F32One => res.ret = hsl_to_rgb(<<F32Zero, s, l>>)

\* the saturated colour at h = 1 was converted, in sector 6: it is red
C19_Witness ==
    /\ res.op = "hsl_to_rgb"
    /\ res.hsl = <<F32One, F32One, F32Frac(1, 2)>>
    /\ F32Floor(F32Mul(res.hsl[1], F32Six)) = 6
    /\ res.ret = <<F32One, F32Zero, F32Zero>>

\* a is in [0, 1]
InUnit(a) == Within(a, F32Zero, F32One)

\* (channel as f32 / 255.0 * factor) * 255.0, the value the closure of
\* img_hsl_transform clamps
Unclamped(channel, factor) ==
    F32Mul(F32Mul(F32Frac(channel, 255), factor), F32Byte)

\* recolouring img to res.ret with the factors rgb raises no R, G or B value
\* and clamps nothing
NeverBrightens(rgb) ==
    \A p \in DOMAIN img.px, k \in 1 .. 3 :
        /\ res.ret.px[p][k] <= img.px[p][k]
        /\ Let(Unclamped(img.px[p][k], rgb[k]),
               LAMBDA v : F32Clamp(v, F32Zero, F32Byte) = v)

\* C20: for h, s and l in [0, 1] every channel hsl_to_rgb returns is in
\* [0, 1]; and for the triples of ddnet_color_to_hsl recolouring raises no
\* R, G or B value of a pixel and the clamp of img_hsl_transform changes
\* nothing
C20_ChannelsInUnit ==
    /\ res.op = "hsl_to_rgb"
         /\ InUnit(res.hsl[1]) /\ InUnit(res.hsl[2]) /\ InUnit(res.hsl[3]) =>
            \A k \in 1 .. 3 : InUnit(res.ret[k])
    /\ res.op = "img_hsl_transform" /\ res.hsl \in DdnetTriples =>
            NeverBrightens(hsl_to_rgb(res.hsl))

\* for h and s in [0, 1] and l in [0.5, 1], the range of ddnet_color_to_hsl,
\* every channel hsl_to_rgb returns is in [0, 1]
ChannelsInUnitOfLightColours ==
    res.op = "hsl_to_rgb"
        /\ InUnit(res.hsl[1]) /\ InUnit(res.hsl[2])
        /\ Within(res.hsl[3], DARKEST_LGT, F32One) =>
            \A k \in 1 .. 3 : InUnit(res.ret[k])

\* for the triples of ddnet_color_to_hsl every channel of hsl_to_rgb is in
\* [0, 1], recolouring raises no R, G or B value and clamps nothing
DdnetColoursNeverBrighten ==
    /\ res.op = "ddnet_color_to_hsl" =>
            \A k \in 1 .. 3 : InUnit(hsl_to_rgb(res.ret)[k])
    /\ res.op = "img_hsl_transform" /\ res.hsl \in DdnetTriples =>
            NeverBrightens(hsl_to_rgb(res.hsl))

\* a buffer was recoloured with the triple of a packed colour and changed
DdnetColoursRecolour ==
    /\ res.op = "img_hsl_transform"
    /\ res.hsl \in DdnetTriples
    /\ res.ret # img

(***************************************************************************)
(* Properties of the colour tests                                          *)
(***************************************************************************)
\* |a * by - target| < within, as the assertions of the test compute it
Near(a, by, target, within) ==
    F32Lt(F32Abs(F32Sub(F32Mul(a, F32Of(by)), F32Of(target))), F32Of(within))

\* C21: for the packed value 1900500 the hue is within 1 degree of 40, the
\* saturation within 1 percent of 100 and the lightness within 1 percent of
\* 92, and the RGB of that triple times 255 is within 2 of (255, 240, 212)
C21_Color1900500 ==
    res.op = "test_ddnet_color" /\ res.color = Color1900500 =>
        /\ Near(res.hsl[1], 360, 40, 1)
        /\ Near(res.hsl[2], 100, 100, 1)
        /\ Near(res.hsl[3], 100, 92, 1)
        /\ Near(res.rgb[1], 255, 255, 2)
        /\ Near(res.rgb[2], 255, 240, 2)
        /\ Near(res.rgb[3], 255, 212, 2)

\* 1900500 was unpacked to hue byte 28, full saturation and lightness byte
\* 212, and its red channel is 1.0
C21_Witness ==
    /\ res.op = "test_ddnet_color"
    /\ res.color = Color1900500
    /\ res.hsl[1] = F32Frac(28, 255)
    /\ res.hsl[2] = F32One
    /\ res.rgb[1] = F32One

\* C22: every 24-bit packed colour is what hsl_to_ddnet_color packs back
\* from its ddnet_color_to_hsl triple
C22_Roundtrip ==
    res.op = "test_roundtrip" => res.packed_back = res.color

\* the colour of the test, 1900500, survives the round trip
RoundtripOf1900500 ==
    res.op = "test_roundtrip" /\ res.color = Color1900500 =>
        res.packed_back = res.color

\* the hue and saturation fields survive the round trip, and the low field
\* comes back as it was or one higher
RoundtripButForLowField ==
    res.op = "test_roundtrip" /\ res.color.lo % 256 # 255 =>
        /\ res.packed_back.hi = res.color.hi
        /\ res.packed_back.lo \div 256 = res.color.lo \div 256
        /\ (res.packed_back.lo % 256) - (res.color.lo % 256) \in {0, 1}

(***************************************************************************)
(* Properties of the builder                                               *)
(***************************************************************************)
\* the with_ method was called on the builder
Called(name) == \E i \in 1 .. Len(with_calls) : with_calls[i].op = name

\* the last call of the with_ method
LastCall(name) ==
    with_calls[CHOOSE i \in 1 .. Len(with_calls) :
                  /\ with_calls[i].op = name
                  /\ \A j \in i + 1 .. Len(with_calls) :
                        with_calls[j].op # name]

\* the build has the feature net
HasNet == "url" \in DOMAIN res.builder

\* C23: build fails with InvalidBuilderConfiguration if and only if neither
\* with_data nor with_url was ever called (without the feature net: if and
\* only if with_data was never called); calls of with_uv alone leave the
\* configuration invalid; and when with_uv was never called the parse runs
\* with TEE_UV_LAYOUT
C23_InvalidBuilderConfiguration ==
    res.op = "build" =>
        LET invalid == res.built.ret.kind = "InvalidBuilderConfiguration" IN
        /\ invalid <=> ~Called("with_data") /\ ~Called("with_url")
        /\ ~HasNet => (invalid <=> ~Called("with_data"))
        /\ (\A i \in 1 .. Len(with_calls) : with_calls[i].op = "with_uv")
              => invalid
        /\ ~Called("with_uv") /\ Called("with_data") =>
              res.built.ret = new_with_uv(LastCall("with_data").data,
                                          TEE_UV_LAYOUT,
                                          LastCall("with_data").format,
                                          overflow_checks)
        /\ ~Called("with_uv") /\ ~Called("with_data") /\ Called("with_url") =>
              res.built.ret = new_from_url_with_uv(LastCall("with_url").url,
                                                   TEE_UV_LAYOUT,
                                                   res.response,
                                                   overflow_checks)

\* a build after with_uv alone, which is invalid
C23_Witness ==
    /\ res.op = "build"
    /\ with_calls # <<>>
    /\ \A i \in 1 .. Len(with_calls) : with_calls[i].op = "with_uv"
    /\ res.built.ret.kind = "InvalidBuilderConfiguration"

\* a build from data without with_uv: the sheet is not of the size of
\* TEE_UV_LAYOUT
DefaultLayoutWitness ==
    /\ res.op = "build"
    /\ ~Called("with_uv")
    /\ res.built.ret.kind = "InvalidDimensions"
    /\ res.built.ret.err.expected = <<U32(256), U32(128)>>

\* C29: with the feature net, after with_data and with_url in either order
\* build parses the bytes of with_data and sends no request, and the URL is
\* used only when with_data was never called; build uses the arguments of
\* the last with_data and the last with_uv call
C29_DataBeforeUrl ==
    res.op = "build" =>
        LET built == res.built IN
        /\ HasNet /\ Called("with_data") /\ Called("with_url") =>
              /\ built.via \in {"new", "new_with_uv"}
              /\ built.data = Some(LastCall("with_data").data)
              /\ \A k \in 1 .. Len(built.ret.stages) :
                    built.ret.stages[k] \notin {"send", "content_type", "body"}
              /\ res.response = NoResponse
        /\ HasNet /\ (built.url.some \/ res.response # NoResponse) =>
              ~Called("with_data")
        /\ Called("with_data") =>
              /\ built.data = Some(LastCall("with_data").data)
              /\ built.format = Some(LastCall("with_data").format)
              /\ built.ret =
                    new_with_uv(LastCall("with_data").data,
                                IF Called("with_uv")
                                THEN LastCall("with_uv").uv
                                ELSE TEE_UV_LAYOUT,
                                LastCall("with_data").format, overflow_checks)
        /\ Called("with_uv") /\ built.via # "none" =>
              built.uv = Some(LastCall("with_uv").uv)

\* a build after with_url and then with_data, and one after with_data and
\* then with_url, with_data called twice with different bytes
C29_Witness ==
    /\ res.op = "build"
    /\ HasNet
    /\ Len(with_calls) = 3
    /\ with_calls[1].op = "with_data"
    /\ with_calls[2].op = "with_url"
    /\ with_calls[3].op = "with_data"
    /\ with_calls[1].data # with_calls[3].data
    /\ res.built.ret.kind = "InvalidDimensions"

\* several with_uv calls with different layouts, the last of which parsed
LastLayoutWitness ==
    /\ res.op = "build"
    /\ Len(with_calls) = 3
    /\ with_calls[1].op = "with_uv"
    /\ with_calls[2].op = "with_data"
    /\ with_calls[3].op = "with_uv"
    /\ with_calls[1].uv # with_calls[3].uv
    /\ res.built.ret.kind = "Ok"
    /\ tee.used_uv = with_calls[3].uv

(***************************************************************************)
(* Properties of the parsing pipeline                                      *)
(***************************************************************************)
\* the stages of a parse from a URL; a parse from bytes starts at decode
Pipeline ==
    <<"send", "content_type", "body", "decode", "validate", "extract">>

FirstStage == IF res.built.url.some THEN 1 ELSE 4

\* the bytes and the layout that the parse of a build is given
BytesOf ==
    IF res.built.url.some THEN res.response.bytes ELSE res.built.data.value

LayoutOf == IF res.built.uv.some THEN res.built.uv.value ELSE TEE_UV_LAYOUT

\* the stage cannot succeed on the inputs of the build
Fails(stage) ==
    CASE stage = "send" -> ~res.response.sent
      [] stage = "content_type" ->
            ~(/\ res.response.content_type.some
              /\ res.response.content_type.value
                    \in {"image/png", "image/jpeg"})
      [] stage = "body" -> ~res.response.body_read
      [] stage = "decode" -> ~BytesOf.decodable
      [] stage = "validate" ->
            dimensions(BytesOf.image) # LayoutOf.container
      [] stage = "extract" ->
            \E n \in 1 .. 12 :
               ~Fits(RegionsOf(LayoutOf)[n], BytesOf.image.width,
                     BytesOf.image.height)

\* how the failure of a stage comes back: the extraction of a rectangle
\* whose sums overflow panics, which spawn_blocking turns into Join
ErrorsOf(stage) ==
    CASE stage \in {"send", "body"} -> {"Reqwest"}
      [] stage = "content_type" -> {"ReqWithOutContentType"}
      [] stage = "decode" -> {"Image"}
      [] stage = "validate" -> {"InvalidDimensions"}
      [] stage = "extract" -> {"OutOfBounds", "Panic", "Join"}

WholePipelineWitness ==
    /\ res.op = "build"
    /\ res.built.ret.kind = "Ok"
    /\ res.built.ret.stages = Pipeline

\* undecodable bytes of a sheet whose layout has a bad region: Image
UndecodableWitness ==
    /\ res.op = "build"
    /\ res.built.via = "new_with_uv"
    /\ Fails("extract")
    /\ res.built.ret.kind = "Image"
    /\ res.built.ret.stages = <<"decode">>

(***************************************************************************)
(* Properties of the default layouts                                       *)
(***************************************************************************)
\* C24: the twelve regions of TEE_UV_LAYOUT end within 256 x 128: the body
\* is 96x96 at the origin, its shadow 96x96 at x = 96, the feet regions are
\* 64x32, the hand regions 32x32, and the eyes are six 32x32 regions in a
\* row at y = 96 from x = 64; and Tee::new of a decodable 256x128 sheet
\* does not return OutOfBounds
C24_DefaultLayoutFits ==
    /\ \A n \in 1 .. 12 : Fits(RegionsOf(TEE_UV_LAYOUT)[n], 256, 128)
    /\ TEE_UV_LAYOUT.body = Part(U32(0), U32(0), U32(96), U32(96))
    /\ TEE_UV_LAYOUT.body_shadow = Part(U32(96), U32(0), U32(96), U32(96))
    /\ \A feet \in {TEE_UV_LAYOUT.feet, TEE_UV_LAYOUT.feet_shadow} :
          feet.w = U32(64) /\ feet.h = U32(32)
    /\ \A hand \in {TEE_UV_LAYOUT.hand, TEE_UV_LAYOUT.hand_shadow} :
          hand.w = U32(32) /\ hand.h = U32(32)
    /\ \A k \in 0 .. 5 :
          TEE_UV_LAYOUT.eyes[k]
             = Part(U32(64 + 32 * k), U32(96), U32(32), U32(32))
    /\ res.op = "new" /\ res.decodable /\ res.size = <<256, 128>>
          => res.kind = "Ok" /\ tee.ok

\* a 256x128 sheet was parsed by Tee::new: the last eye is the 32x32
\* region that ends in the lower right corner of the sheet
C24_Witness ==
    /\ res.op = "new"
    /\ res.decodable
    /\ res.size = <<256, 128>>
    /\ res.kind = "Ok"
    /\ tee.used_uv = TEE_UV_LAYOUT
    /\ tee.eye[5].tag = "Surprise"
    /\ tee.eye[5].img.px[<<31, 31>>] = SheetPixel("opaque", 255, 127)

\* the buffer has the colour of the n-th region in every pixel
Solid(image, n) ==
    \A p \in Grid(image.width, image.height) : image.px[p] = RegionColor(n)

\* the Tee was parsed from a sheet with a solid colour in each region
OfRegionSheet ==
    /\ \A n \in 1 .. 6 :
          Solid(PartOf(tee, <<"Body", "BodyShadow", "Feet", "FeetShadow",
                              "Hand", "HandShadow">>[n]), n)
    /\ \A k \in 0 .. 5 : Solid(tee.eye[k].img, 7 + k)

\* C25: for the opaque sheet with a solid colour in each region, parsed by
\* Tee::new and composed onto TEE_SKIN_LAYOUT with EyeType::Happy, the
\* canvas is 96x64, its pixel (16, 0) has the colour of the body region
\* and its pixel (39, 18) the colour of the Happy eye region
C25_DefaultComposition ==
    (/\ res.op = "compose"
     /\ res.skin = TEE_SKIN_LAYOUT
     /\ res.eye_type = "Happy"
     /\ OfRegionSheet)
      => /\ res.kind = "Ok"
         /\ <<res.canvas.width, res.canvas.height>> = <<96, 64>>
         /\ res.canvas.px[<<16, 0>>] = RegionColor(1)
         /\ res.canvas.px[<<39, 18>>] = RegionColor(7 + index("Happy"))

\* the composition of the claim was made, and the colours of the body,
\* its shadow, the feet and the eyes differ
C25_Witness ==
    /\ res.op = "compose"
    /\ res.skin = TEE_SKIN_LAYOUT
    /\ res.eye_type = "Happy"
    /\ res.kind = "Ok"
    /\ OfRegionSheet
    /\ \A n \in 1 .. 12 : \A m \in 1 .. 12 :
          n # m => RegionColor(n) # RegionColor(m)
    /\ <<tee.body.value.width, tee.body.value.height>> = <<96, 96>>

(***************************************************************************)
(* Properties of the Tee over its life                                     *)
(***************************************************************************)
\* the dimensions of a buffer
Dims(image) == <<image.width, image.height>>

\* the size of a region of the layout, as a pair of u32
SizeOf(part) == <<part.w, part.h>>

\* C26: apply_hsl_to_parts changes no sub-buffer that is not named, no eye,
\* not used_uv and the dimensions of no buffer, whatever regions the layout
\* gives the buffers; apply_hsl_to_all changes no eye (and nothing but the
\* pixels of the six sub-buffers)
C26_RecolorFrame ==
    [][recolors' = recolors + 1 =>
         /\ res'.op \in {"apply_hsl_to_parts", "apply_hsl_to_all"}
         /\ tee'.ok
         /\ tee'.eye = tee.eye
         /\ tee'.used_uv = tee.used_uv
         /\ \A part \in TeePart :
               Dims(PartOf(tee', part)) = Dims(PartOf(tee, part))
         /\ res'.op = "apply_hsl_to_parts" =>
               \A part \in TeePart \ Named(res'.parts) :
                  PartOf(tee', part) = PartOf(tee, part)]_vars

\* the body was recoloured on a Tee whose body and first eye regions
\* coincide: the body buffer changed, the eye is still the region of the
\* sheet, and so is the body shadow
C26_Witness ==
    /\ res.op = "apply_hsl_to_parts"
    /\ res.parts = <<"Body">>
    /\ tee.used_uv.body = tee.used_uv.eyes[0]
    /\ tee.body.value # view(img, tee.used_uv.body)
    /\ tee.eye[0].img = view(img, tee.used_uv.body)
    /\ tee.body.shadow = view(img, tee.used_uv.body_shadow)

\* the same on a Tee whose regions overlap without coinciding
OverlappingRegionsWitness ==
    /\ res.op = "apply_hsl_to_parts"
    /\ res.parts = <<"Body">>
    /\ tee.used_uv.body.w.lo > 1
    /\ tee.used_uv.body_shadow.w.lo > 1
    /\ tee.body.value # view(img, tee.used_uv.body)
    /\ tee.body.shadow = view(img, tee.used_uv.body_shadow)

\* apply_hsl_to_all changed the six sub-buffers of a Tee and no eye
RecolorAllWitness ==
    /\ res.op = "apply_hsl_to_all"
    /\ \A part \in TeePart : PartOf(tee, part) # view(img, tee.used_uv.body)
    /\ \A k \in 0 .. 5 : tee.eye[k].img = view(img, tee.used_uv.eyes[k])

\* every buffer of the Tee has the dimensions of its region in used_uv
TrueSizes(t) ==
    /\ dimensions(t.body.value) = SizeOf(t.used_uv.body)
    /\ dimensions(t.body.shadow) = SizeOf(t.used_uv.body_shadow)
    /\ dimensions(t.feet.value) = SizeOf(t.used_uv.feet)
    /\ dimensions(t.feet.shadow) = SizeOf(t.used_uv.feet_shadow)
    /\ dimensions(t.hand.value) = SizeOf(t.used_uv.hand)
    /\ dimensions(t.hand.shadow) = SizeOf(t.used_uv.hand_shadow)
    /\ \A k \in 0 .. 5 : dimensions(t.eye[k].img) = SizeOf(t.used_uv.eyes[k])

\* the target size of each body and feet layer of a composition is the
\* scaled size of the buffer handed to resize
BodyAndFeetTargets ==
    res.op = "compose" =>
        \A k \in 1 .. Len(res.ret.draws) :
           LET draw == res.ret.draws[k] IN
           draw.layer \in {"body.shadow", "body.value", "feet.shadow",
                           "feet.value"}
              => draw.target = scale(Dims(draw.handed),
                                     res.skin[draw.slot][2])

\* C28: a successful parse with the layout L gives a Tee with used_uv = L,
\* no later call changes used_uv, and at all times each buffer has the
\* dimensions of its region in used_uv; so the sizes compose scales for
\* the body and feet layers are those of the buffers it resizes
C28_RetainedLayout ==
    /\ [](tee.ok => TrueSizes(tee) /\ BodyAndFeetTargets)
    /\ [][/\ res'.op = "new_with_uv" /\ tee'.ok => tee'.used_uv = res'.uv
          /\ tee.ok => tee'.ok /\ tee'.used_uv = tee.used_uv]_vars

\* a composition of a Tee that was recoloured before, with buffers of
\* several sizes
C28_Witness ==
    /\ res.op = "compose"
    /\ res.ret.kind = "Ok"
    /\ recolors > 0
    /\ tee.body.value # view(img, tee.used_uv.body)
    /\ Dims(tee.body.value) # Dims(tee.feet.value)
    /\ Dims(tee.body.value) # Dims(tee.eye[3].img)
    /\ dimensions(tee.eye[3].img) = SizeOf(tee.used_uv.eyes[3])

====
